---- MODULE Spec2Model ----
(***************************************************************************)
(* A model of NitROS (src/nitros): the publisher engine (bounded send      *)
(* queue, send worker, event loop, TCPServer writer set and broadcast),    *)
(* the connection supervisor, the subscriber engine and the wire codec.    *)
(*                                                                         *)
(* Threads are modelled one step per shared-memory operation.  Coroutines  *)
(* of one event loop are modelled one step per stretch of code between two *)
(* suspension points: asyncio runs such a stretch without interleaving.    *)
(***************************************************************************)
EXTENDS Integers, Sequences, FiniteSets, TLC

(***************************************************************************)
(* Bounds of the model and constants of the program.                       *)
(***************************************************************************)
\* queue.Queue(maxsize=10), publisher.py:46
QueueMaxSize == 10
\* TCPServer.HIGH_WATER_MARK = 4 * 1024 * 1024, transport.py:27
HIGH_WATER_MARK == 4194304
\* send calls made in the queue specification
QueueSends == 11
\* send calls made in the server specification
ServerSends == 3
\* calls of Publisher.close
MaxCloseCalls == 2
\* broadcasts the worker may have waiting in the loop's ready queue in the
\* queue specification
LoopBacklog == 1

\* user threads calling Publisher.send
Senders == {"s1", "s2"}
\* TCP connections subscribers may open to the server, named in the order
\* in which the server accepts them
ConnOrder == <<"c1", "c2">>
Conns == {ConnOrder[i] : i \in 1..Len(ConnOrder)}
\* byte length of the serialized body of a message in the queue
\* specification
SmallBodies == {1}
\* byte length of the serialized body of a message in the server
\* specification: one such frame takes a write buffer over the mark
BigBodies == {HIGH_WATER_MARK}
\* the levels a write buffer drains to when the peer reads
DrainLevels == {0, HIGH_WATER_MARK}

None == "None"

Min(a, b) == IF a < b THEN a ELSE b
Range(s) == {s[i] : i \in 1..Len(s)}
\* list.remove(x): the first occurrence
RECURSIVE Remove(_, _)
Remove(s, x) ==
    IF s = <<>> THEN <<>>
    ELSE IF Head(s) = x THEN Tail(s)
    ELSE <<Head(s)>> \o Remove(Tail(s), x)

VARIABLES
    \* ---- publisher (publisher.py) ----
    send_queue,     \* Publisher._send_queue, oldest first
    pub_running,    \* Publisher._running
    nextId,         \* number of the next send call (identifies its message)
    sendPc,         \* per sender: position inside Publisher.send
    sendItem,       \* per sender: the item of the call in progress
    sendSnap,       \* per sender: the queue when the call began
    sendAlone,      \* per sender: no other thread touched the queue since
    workerPc,       \* position of Publisher._send_worker
    workerData,     \* the item the worker popped
    popCount,       \* items the worker has popped so far
    closePc,        \* position of the thread calling Publisher.close
    closeCalls,     \* calls of Publisher.close begun
    pubLog,         \* "Publisher closed" lines logged
    failedLog,      \* "Failed to send message" lines logged: the pops
    registered,     \* the discovery record is registered
    \* ---- event loop and TCPServer (transport.py) ----
    loopq,          \* the loop's ready queue of coroutines, oldest first
    loop_running,   \* the loop is running (run_forever has not been stopped)
    stopsDone,      \* completed runs of TCPServer.stop
    srv_running,    \* TCPServer._running
    listening,      \* the listening socket is open
    clients,        \* TCPServer.clients, a list of writers
    handler,        \* per connection: state of its _handle_client coroutine
    closedBy,       \* per connection: what closed its writer first
    buf,            \* per connection: transport.get_write_buffer_size()
    wire,           \* per connection: the messages written to the writer
    \* ---- subscriber (subscriber.py) ----
    sub_running,    \* Subscriber._running
    connections,    \* Subscriber._connections: conn_id -> supervisor or None
    browsing,       \* the discovery browser delivers events
    discPc,         \* per discovery thread: the coroutine it has to schedule
    evCount,        \* discovery events handled so far
    lastEvent,      \* the discovery event handled last
    released,       \* supervisors taken out of _connections
    subq,           \* ready queue of the subscriber's event loop
    sub_loop,       \* the subscriber's event loop is running
    subClosePc,     \* position of the thread calling Subscriber.close
    subCloseCalls,  \* calls of Subscriber.close begun
    subLog,         \* "Subscriber closed" lines logged
    closeKeys,      \* close: the keys of _connections when its loop began
    closeSeen,      \* close: the keys its loop has visited
    \* ---- connection supervisor (connection.py) and its TCPClient ----
    cmEp,           \* per supervisor: its endpoint, NoEndpoint before creation
    cmRunning,      \* ConnectionManager._running
    cmPc,           \* position of ConnectionManager._connect_loop
    cmStopped,      \* ConnectionManager.stop has completed
    current_backoff,\* ConnectionManager.current_backoff
    waited,         \* delays slept since the last successful connect
    everConnected,  \* a connect attempt has succeeded
    attempts,       \* connect attempts made, all supervisors together
    clState,        \* the supervisor's current TCPClient
    \* ---- latest-wins slot and dispatch worker (subscriber.py) ----
    msg_deque,      \* Subscriber._msg_deque, maxlen 1
    msg_event,      \* Subscriber._msg_event
    rxPc,           \* the loop thread is inside _on_message, before set()
    cbPc,           \* position of Subscriber._callback_worker
    cbPayload,      \* the payload the worker popped
    arrivals,       \* frames received so far
    latest,         \* the last payload of one byte or more received
    lastTaken,      \* the payload the worker popped last
    lastCalled,     \* the payload of the last user-callback invocation
    \* the codec (serializer.py)
    HAS_NUMPY,      \* whether numpy could be imported
    codecPc,        \* "idle", "start", "packed" or "unpacked"
    value,          \* the value given to serialize
    type_hint,      \* the hint given to serialize
    packed,         \* the bytes serialize returned
    unpacked,       \* what deserialize returned
    \* ---- configuration of the publisher ----
    compression,    \* Publisher.compression, as given to the constructor
    \* ---- Publisher.wait_for_subscribers, called by a user thread ----
    now,            \* time.monotonic(), in units of 0.05 s
    waiter          \* the call: pc, count, deadline, wake, result, atCall

pubVars == <<send_queue, pub_running, nextId, sendPc, sendItem, sendSnap,
             sendAlone, workerPc, workerData, popCount, closePc, closeCalls,
             pubLog, failedLog, registered>>
srvVars == <<loopq, loop_running, stopsDone, srv_running, listening, clients,
             handler, closedBy, buf, wire>>
discVars == <<connections, browsing, discPc, evCount, lastEvent, released>>
subCloseVars == <<sub_running, subClosePc, subCloseCalls, subLog, closeKeys,
                  closeSeen>>
cmVars == <<cmEp, cmRunning, cmPc, cmStopped, current_backoff, waited,
            everConnected, attempts, clState>>
slotVars == <<msg_deque, msg_event, rxPc, cbPc, cbPayload, arrivals, latest,
              lastTaken, lastCalled>>
subVars == <<discVars, subCloseVars, cmVars, slotVars, subq, sub_loop>>
codecVars == <<HAS_NUMPY, codecPc, value, type_hint, packed, unpacked>>
cfgVars == <<compression>>
waitVars == <<now, waiter>>
vars == <<pubVars, srvVars, subVars, codecVars, cfgVars, waitVars>>

(***************************************************************************)
(* Publisher: construction                                                 *)
(***************************************************************************)
PubInit ==
    /\ send_queue = <<>>
    /\ pub_running = TRUE
    /\ nextId = 1
    /\ sendPc = [s \in Senders |-> "idle"]
    /\ sendItem = [s \in Senders |-> None]
    /\ sendSnap = [s \in Senders |-> <<>>]
    /\ sendAlone = [s \in Senders |-> TRUE]
    /\ workerPc = "loop"
    /\ workerData = None
    /\ popCount = 0
    /\ closePc = "idle"
    /\ closeCalls = 0
    /\ pubLog = 0
    /\ failedLog = <<>>
    /\ registered = TRUE

\* no call of wait_for_subscribers has been made
NoWait ==
    [pc |-> "idle", count |-> 0, deadline |-> 0, wake |-> 0,
     result |-> "none", atCall |-> FALSE]

\* Publisher(topic, compression): self.compression = compression; no mode
\* is refused
Construct(mode) ==
    /\ compression = mode
    /\ now = 0
    /\ waiter = NoWait

SrvInit ==
    /\ loopq = <<>>
    /\ loop_running = TRUE
    /\ stopsDone = 0
    /\ srv_running = TRUE
    /\ listening = TRUE
    /\ clients = <<>>
    /\ handler = [c \in Conns |-> "idle"]
    /\ closedBy = [c \in Conns |-> "no"]
    /\ buf = [c \in Conns |-> 0]
    /\ wire = [c \in Conns |-> <<>>]

(***************************************************************************)
(* The codec (serializer.py).  A Python value is a record [t, v]: t its    *)
(* type and v its content; a dict is the sequence of its <<key, value>>    *)
(* pairs in insertion order.  Bytes are numbers in 0..255.                 *)
(***************************************************************************)
Nil == [t |-> "nil", v |-> 0]
Bool(b) == [t |-> "bool", v |-> b]
Integer(n) == [t |-> "int", v |-> n]
Str(s) == [t |-> "str", v |-> s]
Bin(bs) == [t |-> "bin", v |-> bs]
List(xs) == [t |-> "list", v |-> xs]
\* a Python tuple, which msgpack packs as it packs a list
Tuple(xs) == [t |-> "tuple", v |-> xs]
Dict(kvs) == [t |-> "map", v |-> kvs]
\* a numpy array: dtype, shape and the bytes of its elements
Ndarray(dtype, shape, bs) ==
    [t |-> "ndarray", v |-> [dtype |-> dtype, shape |-> shape, data |-> bs]]
\* the call raised an exception
Raised == [t |-> "raised", v |-> 0]

\* the strings of the model and their UTF-8 encodings
Strings == {"", "a", "T", "data", "dtype", "shape", "uint8", "__type",
            "__ndarray"}
utf8(s) ==
    CASE s = "" -> <<>>
      [] s = "a" -> <<97>>
      [] s = "T" -> <<84>>
      [] s = "data" -> <<100, 97, 116, 97>>
      [] s = "dtype" -> <<100, 116, 121, 112, 101>>
      [] s = "shape" -> <<115, 104, 97, 112, 101>>
      [] s = "uint8" -> <<117, 105, 110, 116, 56>>
      [] s = "__type" -> <<95, 95, 116, 121, 112, 101>>
      [] s = "__ndarray" -> <<95, 95, 110, 100, 97, 114, 114, 97, 121>>
utf8_decode(bs) == CHOOSE s \in Strings : utf8(s) = bs

\* bool(x)
Truthy(x) ==
    CASE x.t = "nil" -> FALSE
      [] x.t = "bool" -> x.v
      [] x.t = "int" -> x.v # 0
      [] x.t = "str" -> x.v # ""
      [] x.t \in {"bin", "list", "tuple", "map"} -> x.v # <<>>
      [] OTHER -> TRUE

\* key in d
HasKey(d, k) == \E i \in 1..Len(d.v) : d.v[i][1] = k
\* d.get(k): None when the key is absent
Get(d, k) ==
    IF HasKey(d, k)
    THEN d.v[CHOOSE i \in 1..Len(d.v) : d.v[i][1] = k][2]
    ELSE Nil
\* d[k] = x: a present key keeps its place
SetItem(kvs, k, x) ==
    IF \E i \in 1..Len(kvs) : kvs[i][1] = k
    THEN [i \in 1..Len(kvs) |-> IF kvs[i][1] = k THEN <<k, x>> ELSE kvs[i]]
    ELSE Append(kvs, <<k, x>>)
\* {**a, **b}
RECURSIVE Update(_, _)
Update(a, b) ==
    IF b = <<>> THEN a
    ELSE Update(SetItem(a, Head(b)[1], Head(b)[2]), Tail(b))

(***************************************************************************)
(* msgpack.packb(x, use_bin_type=True), for the formats the values of the  *)
(* model need: nil, false, true, positive and negative fixint, fixstr,     *)
(* bin 8, fixarray and fixmap                                              *)
(***************************************************************************)
RECURSIVE packb(_)
RECURSIVE pack_all(_)
RECURSIVE pack_items(_)
packb(x) ==
    CASE x.t = "nil" -> <<192>>
      [] x.t = "bool" -> IF x.v THEN <<195>> ELSE <<194>>
      [] x.t = "int" -> IF x.v >= 0 THEN <<x.v>> ELSE <<256 + x.v>>
      [] x.t = "str" -> <<160 + Len(utf8(x.v))>> \o utf8(x.v)
      [] x.t = "bin" -> <<196, Len(x.v)>> \o x.v
      [] x.t \in {"list", "tuple"} -> <<144 + Len(x.v)>> \o pack_all(x.v)
      [] x.t = "map" -> <<128 + Len(x.v)>> \o pack_items(x.v)
pack_all(xs) ==
    IF xs = <<>> THEN <<>> ELSE packb(Head(xs)) \o pack_all(Tail(xs))
pack_items(kvs) ==
    IF kvs = <<>> THEN <<>>
    ELSE packb(Str(Head(kvs)[1])) \o packb(Head(kvs)[2])
         \o pack_items(Tail(kvs))

(***************************************************************************)
(* msgpack.unpackb(bs, raw=False).  unpack_one reads one value from the    *)
(* front of the bytes and returns it with the bytes that follow it.        *)
(***************************************************************************)
RECURSIVE unpack_one(_)
RECURSIVE unpack_all(_, _)
RECURSIVE unpack_items(_, _)
unpack_one(bs) ==
    LET b == Head(bs)
        rest == Tail(bs)
    IN  CASE b < 128 -> [val |-> Integer(b), rest |-> rest]
          [] b >= 224 -> [val |-> Integer(b - 256), rest |-> rest]
          [] b = 192 -> [val |-> Nil, rest |-> rest]
          [] b = 194 -> [val |-> Bool(FALSE), rest |-> rest]
          [] b = 195 -> [val |-> Bool(TRUE), rest |-> rest]
          [] b >= 160 /\ b < 192 ->
                [val |-> Str(utf8_decode(SubSeq(rest, 1, b - 160))),
                 rest |-> SubSeq(rest, b - 160 + 1, Len(rest))]
          [] b = 196 ->
                [val |-> Bin(SubSeq(rest, 2, 1 + rest[1])),
                 rest |-> SubSeq(rest, 2 + rest[1], Len(rest))]
          [] b >= 144 /\ b < 160 ->
                LET r == unpack_all(rest, b - 144)
                IN  [val |-> List(r.vals), rest |-> r.rest]
          [] b >= 128 /\ b < 144 ->
                LET r == unpack_items(rest, b - 128)
                IN  [val |-> Dict(r.vals), rest |-> r.rest]
unpack_all(bs, n) ==
    IF n = 0 THEN [vals |-> <<>>, rest |-> bs]
    ELSE LET x == unpack_one(bs)
             r == unpack_all(x.rest, n - 1)
         IN  [vals |-> <<x.val>> \o r.vals, rest |-> r.rest]
\* a key that comes again replaces the value of the first
unpack_items(bs, n) ==
    IF n = 0 THEN [vals |-> <<>>, rest |-> bs]
    ELSE LET k == unpack_one(bs)
             x == unpack_one(k.rest)
             r == unpack_items(x.rest, n - 1)
         IN  [vals |-> Update(<<<<k.val.v, x.val>>>>, r.vals),
              rest |-> r.rest]
unpackb(bs) == unpack_one(bs).val

(***************************************************************************)
(* serialize(data, type_hint) and deserialize(data)                        *)
(***************************************************************************)
\* if type_hint:
Hinted(hint) == hint # None /\ hint # ""

\* the wrapper of a numpy array
Wrapper(arr, hint) ==
    LET w == << <<"__ndarray", Bool(TRUE)>>,
                <<"dtype", Str(arr.v.dtype)>>,
                <<"shape", List(arr.v.shape)>>,
                <<"data", Bin(arr.v.data)>> >>
    IN  Dict(IF Hinted(hint) THEN SetItem(w, "__type", Str(hint)) ELSE w)

serialize(x, hint) ==
    IF x.t = "ndarray" THEN packb(Wrapper(x, hint))
    ELSE IF Hinted(hint)
    THEN IF x.t = "map"
         THEN packb(Dict(Update(<< <<"__type", Str(hint)>> >>, x.v)))
         ELSE packb(Dict(<< <<"__type", Str(hint)>>, <<"data", x>> >>))
    ELSE packb(x)

\* np.frombuffer(result["data"], dtype=np.dtype(result["dtype"]))
\*   .reshape(result["shape"]).copy(): KeyError for a missing key,
\* TypeError or ValueError for a value that is not of the wrapper's types
frombuffer(result) ==
    IF /\ HasKey(result, "data") /\ Get(result, "data").t = "bin"
       /\ HasKey(result, "dtype") /\ Get(result, "dtype").v = "uint8"
       /\ HasKey(result, "shape") /\ Get(result, "shape").t = "list"
    THEN Ndarray(Get(result, "dtype").v, Get(result, "shape").v,
                 Get(result, "data").v)
    ELSE Raised

\* (mutant) the wrapper is never unwrapped
IsHintWrapper_Never(result) == FALSE
\* "__type" in result and "data" in result and len(result) == 2
IsHintWrapper(result) ==
    HasKey(result, "__type") /\ HasKey(result, "data") /\ Len(result.v) = 2

deserialize(bs) ==
    LET result == unpackb(bs)
    IN  IF result.t = "map" /\ Truthy(Get(result, "__ndarray")) /\ HAS_NUMPY
        THEN frombuffer(result)
        ELSE IF result.t = "map" /\ IsHintWrapper(result)
        THEN Get(result, "data")
        ELSE result

\* the codec is not in use
CodecIdle ==
    /\ HAS_NUMPY = FALSE
    /\ codecPc = "idle"
    /\ value = Nil
    /\ type_hint = None
    /\ packed = <<>>
    /\ unpacked = Nil

\* packed = serialize(value, type_hint)
Serialize ==
    /\ codecPc = "start"
    /\ packed' = serialize(value, type_hint)
    /\ codecPc' = "packed"
    /\ UNCHANGED <<HAS_NUMPY, value, type_hint, unpacked>>
    /\ UNCHANGED <<pubVars, srvVars, subVars, cfgVars, waitVars>>

\* unpacked = deserialize(packed)
Deserialize ==
    /\ codecPc = "packed"
    /\ unpacked' = deserialize(packed)
    /\ codecPc' = "unpacked"
    /\ UNCHANGED <<HAS_NUMPY, value, type_hint, packed>>
    /\ UNCHANGED <<pubVars, srvVars, subVars, cfgVars, waitVars>>

(***************************************************************************)
(* queue.Queue                                                             *)
(***************************************************************************)
\* (mutant) the bound tested one too late
Full_OffByOne(q) == Len(q) > QueueMaxSize
\* put_nowait raises queue.Full
Full(q) == Len(q) >= QueueMaxSize
\* get_nowait raises queue.Empty
Empty(q) == q = <<>>
put(q, x) == Append(q, x)
\* (mutant) get removes the newest item
get_rest_Newest(q) == SubSeq(q, 1, Len(q) - 1)
\* get removes and returns the oldest item
get_rest(q) == Tail(q)
get_item(q) == Head(q)

\* a step of thread `actor` (a sender or "worker") that changes the queue:
\* every other sender inside a call is no longer alone with the queue;
\* `returns` says the actor's own call returns with this step
AloneAfter(actor, touches, returns) ==
    [t \in Senders |->
        IF t = actor THEN (IF returns THEN TRUE ELSE sendAlone[t])
        ELSE IF sendPc[t] = "idle" THEN TRUE
        ELSE IF touches THEN FALSE ELSE sendAlone[t]]
SnapAfter(actor, touches, returns) ==
    [t \in Senders |->
        IF t = actor THEN (IF returns THEN <<>> ELSE sendSnap[t])
        ELSE IF touches THEN <<>> ELSE sendSnap[t]]

(***************************************************************************)
(* Publisher.send                                                          *)
(***************************************************************************)
\* if type_hint: data = (data, type_hint)
QueueItem(data, hint) ==
    IF Hinted(hint) THEN Tuple(<<data, Str(hint)>>) ELSE data

\* a call send(Nil) with no hint; its encoding is one byte long
PlainArgs == {[value |-> Nil, hint |-> None]}
\* a body of this size says that the encoding is as long as its bytes are;
\* any other body stands for an encoding of that many bytes, which the
\* model of the transport counts without spelling it
Spelled == 0

\* the call: send(data, type_hint).  The item is what the call puts on the
\* queue (data); given keeps the arguments of the call.
SendCall(s, maxSends, bodies, args) ==
    /\ sendPc[s] = "idle"
    /\ nextId <= maxSends
    /\ \E b \in bodies, a \in args :
          sendItem' = [sendItem EXCEPT ![s] =
                          [id |-> nextId, body |-> b,
                           data |-> QueueItem(a.value, a.hint), given |-> a]]
    /\ nextId' = nextId + 1
    /\ sendPc' = [sendPc EXCEPT ![s] = "put"]
    /\ sendSnap' = [sendSnap EXCEPT ![s] = send_queue]
    /\ sendAlone' = [sendAlone EXCEPT ![s] = TRUE]
    /\ UNCHANGED <<send_queue, pub_running, workerPc, workerData, popCount,
                   closePc, closeCalls, pubLog, failedLog, registered>>
    /\ UNCHANGED <<srvVars, subVars, codecVars, cfgVars, waitVars>>

\* self._send_queue.put_nowait(data)
SendPut(s) ==
    /\ sendPc[s] = "put"
    /\ IF Full(send_queue)
       THEN /\ sendPc' = [sendPc EXCEPT ![s] = "get"]
            /\ UNCHANGED <<send_queue, sendAlone, sendSnap, sendItem>>
       ELSE /\ send_queue' = put(send_queue, sendItem[s])
            /\ sendPc' = [sendPc EXCEPT ![s] = "idle"]
            /\ sendItem' = [sendItem EXCEPT ![s] = None]
            /\ sendAlone' = AloneAfter(s, TRUE, TRUE)
            /\ sendSnap' = SnapAfter(s, TRUE, TRUE)
    /\ UNCHANGED <<pub_running, nextId, workerPc, workerData, popCount,
                   closePc, closeCalls, pubLog, failedLog, registered>>
    /\ UNCHANGED <<srvVars, subVars, codecVars, cfgVars, waitVars>>

\* except queue.Full: self._send_queue.get_nowait(); a queue.Empty raised
\* here is swallowed by the bare except and the call returns
SendDropOldest(s) ==
    /\ sendPc[s] = "get"
    /\ IF Empty(send_queue)
       THEN /\ sendPc' = [sendPc EXCEPT ![s] = "idle"]
            /\ sendItem' = [sendItem EXCEPT ![s] = None]
            /\ sendAlone' = AloneAfter(s, FALSE, TRUE)
            /\ sendSnap' = SnapAfter(s, FALSE, TRUE)
            /\ UNCHANGED send_queue
       ELSE /\ send_queue' = get_rest(send_queue)
            /\ sendPc' = [sendPc EXCEPT ![s] = "reput"]
            /\ sendAlone' = AloneAfter(s, TRUE, FALSE)
            /\ sendSnap' = SnapAfter(s, TRUE, FALSE)
            /\ UNCHANGED sendItem
    /\ UNCHANGED <<pub_running, nextId, workerPc, workerData, popCount,
                   closePc, closeCalls, pubLog, failedLog, registered>>
    /\ UNCHANGED <<srvVars, subVars, codecVars, cfgVars, waitVars>>

\* self._send_queue.put_nowait(data) after the drop; a queue.Full raised
\* here is swallowed by the bare except and the call returns
SendReput(s) ==
    /\ sendPc[s] = "reput"
    /\ IF Full(send_queue)
       THEN /\ sendAlone' = AloneAfter(s, FALSE, TRUE)
            /\ sendSnap' = SnapAfter(s, FALSE, TRUE)
            /\ UNCHANGED send_queue
       ELSE /\ send_queue' = put(send_queue, sendItem[s])
            /\ sendAlone' = AloneAfter(s, TRUE, TRUE)
            /\ sendSnap' = SnapAfter(s, TRUE, TRUE)
    /\ sendPc' = [sendPc EXCEPT ![s] = "idle"]
    /\ sendItem' = [sendItem EXCEPT ![s] = None]
    /\ UNCHANGED <<pub_running, nextId, workerPc, workerData, popCount,
                   closePc, closeCalls, pubLog, failedLog, registered>>
    /\ UNCHANGED <<srvVars, subVars, codecVars, cfgVars, waitVars>>

(***************************************************************************)
(* Wire format: payload and frame                                          *)
(***************************************************************************)
\* struct.pack('>I', n): four bytes, big-endian
Pack32(n) ==
    << (n \div 16777216) % 256, (n \div 65536) % 256,
       (n \div 256) % 256, n % 256 >>
\* struct.unpack('>I', b)[0]
Unpack32(b) == b[1] * 16777216 + b[2] * 65536 + b[3] * 256 + b[4]

\* isinstance(data, tuple) and len(data) == 2 and isinstance(data[1], str)
HasHint(obj) == obj.t = "tuple" /\ Len(obj.v) = 2 /\ obj.v[2].t = "str"

\* a value msgpack has no encoding for (a set, an object of a class)
Unpackable == [t |-> "set", v |-> 0]
\* msgpack.packb(x) returns: every value in x is of a type it encodes;
\* otherwise it raises TypeError
RECURSIVE CanPack(_)
CanPack(x) ==
    CASE x.t \in {"list", "tuple"} ->
            \A i \in 1..Len(x.v) : CanPack(x.v[i])
      [] x.t = "map" -> \A i \in 1..Len(x.v) : CanPack(x.v[i][2])
      [] x.t = "ndarray" -> TRUE
      [] OTHER -> x.t \in {"nil", "bool", "int", "str", "bin"}

\* compress(data, mode): the bytes it may return, or Raised.  The known
\* modes raise when their library is missing or the data is not of their
\* kind; any other mode raises ValueError.
compress(data, mode) ==
    CASE mode = "image" -> {Raised, Bin(<<255, 216, 255>>)}
      [] mode = "pointcloud" -> {Raised, Bin(<<0, 0, 0, 4>>)}
      [] OTHER -> {Raised}

\* the worker's try block up to the payload: the flags byte and the bytes
\* after it, or ok = FALSE when an exception was raised
Encoded(obj, mode) ==
    LET data == IF HasHint(obj) THEN obj.v[1] ELSE obj
        hint == IF HasHint(obj) THEN obj.v[2].v ELSE None
    IN  IF mode # None /\ mode # ""
        THEN {IF c = Raised
              THEN [ok |-> FALSE, flags |-> 0, bytes |-> <<>>]
              ELSE [ok |-> TRUE, flags |-> IF mode = "image" THEN 1 ELSE 2,
                    bytes |-> c.v] : c \in compress(data, mode)}
        ELSE {IF CanPack(data)
              THEN [ok |-> TRUE, flags |-> 0, bytes |-> serialize(data, hint)]
              ELSE [ok |-> FALSE, flags |-> 0, bytes |-> <<>>]}

\* payload = bytes([0]) + serialized: the flags byte, then the body.  The
\* body's bytes are named by the id of the message; len is len(payload).
\* pop is the number of the worker's pop that produced it.
Payload(data, enc) ==
    [flags |-> enc.flags, id |-> data.item.id,
     len |-> 1 + (IF data.item.body = Spelled THEN Len(enc.bytes)
                  ELSE data.item.body),
     pop |-> data.pop, bytes |-> enc.bytes]
\* message = length + data
Message(payload) == [length |-> Pack32(payload.len), data |-> payload]
\* len(message)
MessageLen(payload) == 4 + payload.len

(***************************************************************************)
(* Publisher._send_worker                                                  *)
(***************************************************************************)
\* while self._running:
WorkerLoop ==
    /\ workerPc = "loop"
    /\ workerPc' = IF pub_running THEN "get" ELSE "done"
    /\ UNCHANGED <<send_queue, pub_running, nextId, sendPc, sendItem,
                   sendSnap, sendAlone, workerData, popCount, closePc,
                   closeCalls, pubLog, failedLog, registered>>
    /\ UNCHANGED <<srvVars, subVars, codecVars, cfgVars, waitVars>>

\* data = self._send_queue.get(timeout=0.1), an item is there
WorkerGet ==
    /\ workerPc = "get"
    /\ ~Empty(send_queue)
    /\ workerData' = [item |-> get_item(send_queue), pop |-> popCount + 1]
    /\ send_queue' = get_rest(send_queue)
    /\ popCount' = popCount + 1
    /\ workerPc' = "send"
    /\ sendAlone' = AloneAfter("worker", TRUE, FALSE)
    /\ sendSnap' = SnapAfter("worker", TRUE, FALSE)
    /\ UNCHANGED <<pub_running, nextId, sendPc, sendItem, closePc,
                   closeCalls, pubLog, failedLog, registered>>
    /\ UNCHANGED <<srvVars, subVars, codecVars, cfgVars, waitVars>>

\* the get times out on an empty queue: except queue.Empty: continue
WorkerTimeout ==
    /\ workerPc = "get"
    /\ Empty(send_queue)
    /\ workerPc' = "loop"
    /\ UNCHANGED <<send_queue, pub_running, nextId, sendPc, sendItem,
                   sendSnap, sendAlone, workerData, popCount, closePc,
                   closeCalls, pubLog, failedLog, registered>>
    /\ UNCHANGED <<srvVars, subVars, codecVars, cfgVars, waitVars>>

\* (mutant) the newest coroutine runs first
run_coroutine_threadsafe_Lifo(q, coro) == <<coro>> \o q
\* asyncio.run_coroutine_threadsafe(self.server.broadcast(payload), loop):
\* call_soon_threadsafe appends to the loop's ready queue
run_coroutine_threadsafe(q, coro) == Append(q, coro)

\* (mutant) no except clause around the encoding: an exception ends the
\* worker's thread
AfterSend_Uncaught(enc) == IF enc.ok THEN "loop" ELSE "done"
\* where the worker goes from its inner try block: to the test of the while
\* loop, after run_coroutine_threadsafe as after "except Exception as e"
AfterSend(enc) ==
    CASE enc.ok -> "loop"
      [] OTHER -> "loop"

WorkerSend(backlog) ==
    /\ workerPc = "send"
    /\ Len(SelectSeq(loopq, LAMBDA t : t.kind = "broadcast")) < backlog
    /\ \E enc \in Encoded(workerData.item.data, compression) :
          /\ IF enc.ok
             THEN /\ loopq' = run_coroutine_threadsafe(
                                 loopq, [kind |-> "broadcast",
                                         data |-> Payload(workerData, enc),
                                         conn |-> None])
                  /\ UNCHANGED failedLog
             ELSE /\ failedLog' = Append(failedLog, workerData.pop)
                  /\ UNCHANGED loopq
          /\ workerPc' = AfterSend(enc)
    /\ workerData' = None
    /\ UNCHANGED <<send_queue, pub_running, nextId, sendPc, sendItem,
                   sendSnap, sendAlone, popCount, closePc, closeCalls,
                   pubLog, registered>>
    /\ UNCHANGED <<loop_running, stopsDone, srv_running, listening, clients,
                   handler, closedBy, buf, wire>>
    /\ UNCHANGED <<subVars, codecVars, cfgVars, waitVars>>

(***************************************************************************)
(* TCPServer (transport.py), run by the publisher's event loop.  The lock  *)
(* of TCPServer is an asyncio.Lock that no coroutine holds across an       *)
(* await, so on the single loop thread it is always free when asked for    *)
(* and `async with self._lock` never suspends: each block below is one     *)
(* step.                                                                   *)
(***************************************************************************)
\* the first thing that closes a writer is recorded
CloseWriter(cb, ws, why) ==
    [c \in Conns |-> IF c \in ws /\ cb[c] = "no" THEN why ELSE cb[c]]

\* for writer in disconnected: self.clients.remove(writer)
RECURSIVE RemoveEach(_, _)
RemoveEach(s, ds) ==
    IF ds = <<>> THEN s ELSE RemoveEach(Remove(s, Head(ds)), Tail(ds))

\* a peer connects: asyncio accepts it and schedules _handle_client
Accept(c) ==
    /\ loop_running
    /\ listening
    /\ handler[c] = "idle"
    /\ \A i, j \in 1..Len(ConnOrder) :
          i < j /\ ConnOrder[j] = c => handler[ConnOrder[i]] # "idle"
    /\ handler' = [handler EXCEPT ![c] = "accepted"]
    /\ loopq' = Append(loopq, [kind |-> "handle_client", data |-> None,
                               conn |-> c])
    /\ UNCHANGED <<loop_running, stopsDone, srv_running, listening, clients,
                   closedBy, buf, wire>>
    /\ UNCHANGED <<pubVars, subVars, codecVars, cfgVars, waitVars>>

\* self.clients.append(writer)
AddClient(cl, c) == Append(cl, c)

\* _handle_client up to its first read; if the server has stopped in the
\* meantime the while loop is not entered and the finally block runs at once
HandleClient ==
    /\ loop_running
    /\ loopq # <<>>
    /\ Head(loopq).kind = "handle_client"
    /\ LET c == Head(loopq).conn IN
          IF srv_running
          THEN /\ clients' = AddClient(clients, c)
               /\ handler' = [handler EXCEPT ![c] = "reading"]
               /\ UNCHANGED closedBy
          ELSE /\ clients' = Remove(AddClient(clients, c), c)
               /\ handler' = [handler EXCEPT ![c] = "done"]
               /\ closedBy' = CloseWriter(closedBy, {c}, "handler")
    /\ loopq' = Tail(loopq)
    /\ UNCHANGED <<loop_running, stopsDone, srv_running, listening, buf, wire>>
    /\ UNCHANGED <<pubVars, subVars, codecVars, cfgVars, waitVars>>

\* finally: if writer in self.clients: self.clients.remove(writer)
DropClient(cl, c) == IF c \in Range(cl) THEN Remove(cl, c) ELSE cl

\* reader.read returns b"" (the peer closed, or the writer was closed
\* here) or raises: the finally block of _handle_client
HandlerEOF(c) ==
    /\ loop_running
    /\ handler[c] = "reading"
    /\ clients' = DropClient(clients, c)
    /\ closedBy' = CloseWriter(closedBy, {c}, "handler")
    /\ handler' = [handler EXCEPT ![c] = "done"]
    /\ UNCHANGED <<loopq, loop_running, stopsDone, srv_running, listening,
                   buf, wire>>
    /\ UNCHANGED <<pubVars, subVars, codecVars, cfgVars, waitVars>>

\* the peer reads: the transport's write buffer empties
Drain(c) ==
    /\ loop_running
    /\ closedBy[c] = "no"
    /\ \E level \in DrainLevels :
          /\ level < buf[c]
          /\ buf' = [buf EXCEPT ![c] = level]
    /\ UNCHANGED <<loopq, loop_running, stopsDone, srv_running, listening,
                   clients, handler, closedBy, wire>>
    /\ UNCHANGED <<pubVars, subVars, codecVars, cfgVars, waitVars>>

\* (mutant) a buffer exactly at the mark is skipped too
Skipped_AtMark(size) == size >= HIGH_WATER_MARK
\* if buf_size > self.HIGH_WATER_MARK: continue
Skipped(size) == size > HIGH_WATER_MARK

\* the writers of one broadcast that are asked to write
Writable(cl) == {w \in Range(cl) : ~Skipped(buf[w])}

\* (mutant) the first write that raises ends the broadcast for everybody
Written_NoneAfterFailure(cl, failed) ==
    IF failed = {} THEN Writable(cl) ELSE {}
\* try: writer.write(message) except Exception: disconnected.append(writer)
\* inside the for loop: the writers whose write returned
Written(cl, failed) == Writable(cl) \ failed

\* (mutant) a writer whose write raised is closed but stays in the list
AfterBroadcast_KeepsFailed(cl, failed) == cl
\* the writers left in self.clients after a broadcast in which the writes
\* to the writers in `failed` raised
AfterBroadcast(cl, failed) ==
    RemoveEach(cl, SelectSeq(cl, LAMBDA w : w \in failed))

\* TCPServer.broadcast(data); writer.write raises for the writers in failed
Broadcast ==
    /\ loop_running
    /\ loopq # <<>>
    /\ Head(loopq).kind = "broadcast"
    /\ LET data == Head(loopq).data IN
          IF clients = <<>>
          THEN UNCHANGED <<clients, closedBy, buf, wire>>
          ELSE \E failed \in SUBSET Writable(clients) :
                  LET written == Written(clients, failed) IN
                  /\ wire' = [c \in Conns |->
                                IF c \in written
                                THEN Append(wire[c], Message(data))
                                ELSE wire[c]]
                  /\ buf' = [c \in Conns |->
                                IF c \in written
                                THEN buf[c] + MessageLen(data)
                                ELSE buf[c]]
                  /\ clients' = AfterBroadcast(clients, failed)
                  /\ closedBy' = CloseWriter(closedBy, failed, "broadcast")
    /\ loopq' = Tail(loopq)
    /\ UNCHANGED <<loop_running, stopsDone, srv_running, listening, handler>>
    /\ UNCHANGED <<pubVars, subVars, codecVars, cfgVars, waitVars>>

\* (mutant) stop closes the writers and keeps them in the list
AfterStop_KeepsWriters(cl) == cl
\* self.clients.clear()
AfterStop(cl) == SubSeq(cl, 1, 0)

\* TCPServer.stop
ServerStop ==
    /\ loop_running
    /\ loopq # <<>>
    /\ Head(loopq).kind = "stop"
    /\ srv_running' = FALSE
    /\ closedBy' = CloseWriter(closedBy, Range(clients), "stop")
    /\ clients' = AfterStop(clients)
    /\ listening' = FALSE
    /\ stopsDone' = stopsDone + 1
    /\ loopq' = Tail(loopq)
    /\ UNCHANGED <<loop_running, handler, buf, wire>>
    /\ UNCHANGED <<pubVars, subVars, codecVars, cfgVars, waitVars>>

\* self._loop.stop, scheduled by close
LoopStop ==
    /\ loop_running
    /\ loopq # <<>>
    /\ Head(loopq).kind = "loopstop"
    /\ loop_running' = FALSE
    /\ loopq' = Tail(loopq)
    /\ UNCHANGED <<stopsDone, srv_running, listening, clients, handler,
                   closedBy, buf, wire>>
    /\ UNCHANGED <<pubVars, subVars, codecVars, cfgVars, waitVars>>

\* Publisher.subscriber_count
subscriber_count == Len(clients)

(***************************************************************************)
(* Publisher.wait_for_subscribers(count, timeout), called by a user        *)
(* thread.  Time is counted in polling intervals of 0.05 s and passes      *)
(* between any two steps.                                                  *)
(***************************************************************************)
Tick(maxTime) ==
    /\ now < maxTime
    /\ now' = now + 1
    /\ UNCHANGED <<waiter, pubVars, srvVars, subVars, codecVars, cfgVars>>

\* deadline = time.monotonic() + timeout
WaitCall(counts, timeouts) ==
    /\ waiter.pc = "idle"
    /\ \E count \in counts, timeout \in timeouts :
          waiter' = [pc |-> "test", count |-> count,
                     deadline |-> now + timeout, wake |-> 0,
                     result |-> "none",
                     atCall |-> subscriber_count >= count]
    /\ UNCHANGED <<now, pubVars, srvVars, subVars, codecVars, cfgVars>>

\* while time.monotonic() < deadline:
DeadlineLeft(t, deadline) == t < deadline

\* the test of the while loop; return False when it fails
WaitTest ==
    /\ waiter.pc = "test"
    /\ waiter' = IF DeadlineLeft(now, waiter.deadline)
                 THEN [waiter EXCEPT !.pc = "poll"]
                 ELSE [waiter EXCEPT !.pc = "done", !.result = "false"]
    /\ UNCHANGED <<now, pubVars, srvVars, subVars, codecVars, cfgVars>>

\* if self.subscriber_count >= count: return True; else time.sleep(0.05)
WaitPoll ==
    /\ waiter.pc = "poll"
    /\ waiter' = IF subscriber_count >= waiter.count
                 THEN [waiter EXCEPT !.pc = "done", !.result = "true"]
                 ELSE [waiter EXCEPT !.pc = "sleep", !.wake = now + 1]
    /\ UNCHANGED <<now, pubVars, srvVars, subVars, codecVars, cfgVars>>

\* time.sleep(0.05) returns
WaitWake ==
    /\ waiter.pc = "sleep"
    /\ now >= waiter.wake
    /\ waiter' = [waiter EXCEPT !.pc = "test"]
    /\ UNCHANGED <<now, pubVars, srvVars, subVars, codecVars, cfgVars>>

(***************************************************************************)
(* Publisher.close, called by a user thread                                *)
(***************************************************************************)
\* if not self._running: return
PubCloseReturnsAtOnce == ~pub_running

\* close(): the guard, and self._running = False
PubCloseCall ==
    /\ closePc = "idle"
    /\ closeCalls < MaxCloseCalls
    /\ closeCalls' = closeCalls + 1
    /\ IF PubCloseReturnsAtOnce
       THEN UNCHANGED <<closePc, pub_running>>
       ELSE /\ pub_running' = FALSE
            /\ closePc' = "join"
    /\ UNCHANGED <<send_queue, nextId, sendPc, sendItem, sendSnap, sendAlone,
                   workerPc, workerData, popCount, pubLog, failedLog, registered>>
    /\ UNCHANGED <<srvVars, subVars, codecVars, cfgVars, waitVars>>

\* self._send_thread.join(timeout=1.0) returns: the worker has ended, or
\* the second has passed; then server.stop is scheduled on the loop
PubCloseStopServer ==
    /\ closePc = "join"
    /\ loopq' = run_coroutine_threadsafe(
                    loopq, [kind |-> "stop", data |-> None, conn |-> None])
    /\ closePc' = "waitstop"
    /\ UNCHANGED <<send_queue, pub_running, nextId, sendPc, sendItem,
                   sendSnap, sendAlone, workerPc, workerData, popCount,
                   closeCalls, pubLog, failedLog, registered>>
    /\ UNCHANGED <<loop_running, stopsDone, srv_running, listening, clients,
                   handler, closedBy, buf, wire>>
    /\ UNCHANGED <<subVars, codecVars, cfgVars, waitVars>>

\* future.result(timeout=1.0) returns or times out; self.discovery.close();
\* self._loop.call_soon_threadsafe(self._loop.stop)
PubCloseUnregister ==
    /\ closePc = "waitstop"
    /\ registered' = FALSE
    /\ loopq' = Append(loopq, [kind |-> "loopstop", data |-> None,
                               conn |-> None])
    /\ closePc' = "joinloop"
    /\ UNCHANGED <<send_queue, pub_running, nextId, sendPc, sendItem,
                   sendSnap, sendAlone, workerPc, workerData, popCount,
                   closeCalls, pubLog, failedLog>>
    /\ UNCHANGED <<loop_running, stopsDone, srv_running, listening, clients,
                   handler, closedBy, buf, wire>>
    /\ UNCHANGED <<subVars, codecVars, cfgVars, waitVars>>

\* self._loop_thread.join(timeout=1.0) returns; _log("Publisher closed ...")
PubCloseReturn ==
    /\ closePc = "joinloop"
    /\ pubLog' = pubLog + 1
    /\ UNCHANGED failedLog
    /\ closePc' = "idle"
    /\ UNCHANGED <<send_queue, pub_running, nextId, sendPc, sendItem,
                   sendSnap, sendAlone, workerPc, workerData, popCount,
                   closeCalls, registered>>
    /\ UNCHANGED <<srvVars, subVars, codecVars, cfgVars, waitVars>>

(***************************************************************************)
(* Subscriber: construction (subscriber.py) and the state of the           *)
(* supervisors before any exists                                           *)
(***************************************************************************)
\* endpoints (host, port) of publishers that discovery may report
Endpoints == {[host |-> "10.0.0.1", port |-> 5001],
              [host |-> "10.0.0.2", port |-> 5001]}
\* the endpoint of a supervisor that has not been created
NoEndpoint == [host |-> "", port |-> 0]
\* ConnectionManager objects, named in the order of their creation
SupOrder == <<"m1", "m2", "m3">>
Sups == {SupOrder[i] : i \in 1..Len(SupOrder)}
\* threads of the discovery library that deliver events
DiscThreads == {"d1", "d2"}

\* no payload yet
NoPayload == [n |-> 0, len |-> 0, flags |-> 0, body |-> "none"]

\* a discovery thread that has no coroutine left to schedule
NoCall == [kind |-> "none", m |-> "none"]

\* conn_id = f"{host}:{port}"
conn_id(e) == <<e.host, ":", e.port>>

SubInit ==
    /\ sub_running = TRUE
    /\ connections = [k \in {conn_id(e) : e \in Endpoints} |-> None]
    /\ browsing = TRUE
    /\ discPc = [d \in DiscThreads |-> NoCall]
    /\ evCount = 0
    /\ lastEvent = [kind |-> "none", ep |-> NoEndpoint]
    /\ released = {}
    /\ subq = <<>>
    /\ sub_loop = TRUE
    /\ subClosePc = "idle"
    /\ subCloseCalls = 0
    /\ subLog = 0
    /\ closeKeys = {}
    /\ closeSeen = {}
    /\ cmEp = [m \in Sups |-> NoEndpoint]
    /\ cmRunning = [m \in Sups |-> FALSE]
    /\ cmPc = [m \in Sups |-> "idle"]
    /\ cmStopped = [m \in Sups |-> FALSE]
    /\ current_backoff = [m \in Sups |-> 0]
    /\ waited = [m \in Sups |-> <<>>]
    /\ everConnected = [m \in Sups |-> FALSE]
    /\ attempts = 0
    /\ clState = [m \in Sups |-> "none"]
    /\ msg_deque = <<>>
    /\ msg_event = FALSE
    /\ rxPc = None
    /\ cbPc = "loop"
    /\ cbPayload = NoPayload
    /\ arrivals = 0
    /\ latest = NoPayload
    /\ lastTaken = NoPayload
    /\ lastCalled = NoPayload

\* the keys present in the dict
Keys(d) == {k \in DOMAIN d : d[k] # None}

\* the supervisor object the next ConnectionManager(...) call creates
Unused == {i \in 1..Len(SupOrder) : cmEp[SupOrder[i]] = NoEndpoint}
NewSup == SupOrder[CHOOSE i \in Unused : \A j \in Unused : i <= j]

(***************************************************************************)
(* Subscriber._on_publisher_found / _on_publisher_removed, run by a        *)
(* discovery thread.  The part under self._connections_lock is one step.   *)
(***************************************************************************)
\* (mutant) the handler does not look the endpoint up
AlreadyConnected_Never(k) == FALSE
\* if conn_id in self._connections: return
AlreadyConnected(k) == connections[k] # None

\* ConnectionManager.__init__
\* min_backoff = 1.0
min_backoff == 1
\* max_backoff = 32.0
max_backoff == 32

FoundLocked(d, e, maxEvents) ==
    /\ browsing
    /\ discPc[d] = NoCall
    /\ evCount < maxEvents
    /\ evCount' = evCount + 1
    /\ lastEvent' = [kind |-> "found", ep |-> e]
    /\ IF AlreadyConnected(conn_id(e))
       THEN UNCHANGED <<connections, discPc, cmEp, current_backoff>>
       ELSE /\ Unused # {}
            /\ cmEp' = [cmEp EXCEPT ![NewSup] = e]
            /\ current_backoff' = [current_backoff EXCEPT ![NewSup] = min_backoff]
            /\ connections' = [connections EXCEPT ![conn_id(e)] = NewSup]
            /\ discPc' = [discPc EXCEPT ![d] = [kind |-> "start", m |-> NewSup]]
    /\ UNCHANGED <<browsing, released, subq, sub_loop, subCloseVars,
                   cmRunning, cmPc, cmStopped, waited, everConnected,
                   attempts, clState, slotVars>>
    /\ UNCHANGED <<pubVars, srvVars, codecVars, cfgVars, waitVars>>

\* conn = self._connections.pop(conn_id, None)
RemovedLocked(d, e, maxEvents) ==
    /\ browsing
    /\ discPc[d] = NoCall
    /\ evCount < maxEvents
    /\ evCount' = evCount + 1
    /\ lastEvent' = [kind |-> "removed", ep |-> e]
    /\ LET conn == connections[conn_id(e)] IN
          IF conn = None
          THEN UNCHANGED <<connections, discPc, released>>
          ELSE /\ connections' = [connections EXCEPT ![conn_id(e)] = None]
               /\ released' = released \cup {conn}
               /\ discPc' = [discPc EXCEPT ![d] = [kind |-> "stop", m |-> conn]]
    /\ UNCHANGED <<browsing, subq, sub_loop, subCloseVars, cmVars, slotVars>>
    /\ UNCHANGED <<pubVars, srvVars, codecVars, cfgVars, waitVars>>

\* asyncio.run_coroutine_threadsafe(conn.start() or conn.stop(), self._loop)
DiscSchedule(d) ==
    /\ discPc[d] # NoCall
    /\ subq' = Append(subq, discPc[d])
    /\ discPc' = [discPc EXCEPT ![d] = NoCall]
    /\ UNCHANGED <<connections, browsing, evCount, lastEvent, released,
                   sub_loop, subCloseVars, cmVars, slotVars>>
    /\ UNCHANGED <<pubVars, srvVars, codecVars, cfgVars, waitVars>>

(***************************************************************************)
(* ConnectionManager (connection.py), run by the subscriber's event loop.  *)
(* The loop thread runs one coroutine step at a time and runs none while   *)
(* it is inside _on_message.                                               *)
(***************************************************************************)
\* (mutant) the loop thread also waits for the user callback to return
LoopFree_AfterCallback == sub_loop /\ rxPc = None /\ cbPc # "process"
LoopFree == sub_loop /\ rxPc = None

\* ConnectionManager.start
CmStart ==
    /\ LoopFree
    /\ subq # <<>>
    /\ Head(subq).kind = "start"
    /\ LET m == Head(subq).m IN
          /\ cmRunning' = [cmRunning EXCEPT ![m] = TRUE]
          /\ cmPc' = [cmPc EXCEPT ![m] = "top"]
    /\ subq' = Tail(subq)
    /\ UNCHANGED <<discVars, sub_loop, subCloseVars, cmEp, cmStopped,
                   current_backoff, waited, everConnected, attempts, clState,
                   slotVars>>
    /\ UNCHANGED <<pubVars, srvVars, codecVars, cfgVars, waitVars>>

\* while self._running: self.client = TCPClient(...); await connect()
CmTop(m, maxAttempts) ==
    /\ LoopFree
    /\ cmPc[m] = "top"
    /\ IF cmRunning[m]
       THEN /\ attempts < maxAttempts
            /\ attempts' = attempts + 1
            /\ clState' = [clState EXCEPT ![m] = "new"]
            /\ cmPc' = [cmPc EXCEPT ![m] = "connecting"]
       ELSE /\ cmPc' = [cmPc EXCEPT ![m] = "exit"]
            /\ UNCHANGED <<attempts, clState>>
    /\ UNCHANGED <<discVars, subq, sub_loop, subCloseVars, cmEp, cmRunning,
                   cmStopped, current_backoff, waited, everConnected,
                   slotVars>>
    /\ UNCHANGED <<pubVars, srvVars, codecVars, cfgVars, waitVars>>

\* (mutant) a successful connect leaves the delay as it is
ResetBackoff_Keeps(b) == b
\* self.current_backoff = self.min_backoff
ResetBackoff(b) == min_backoff

\* connect() returned: self.current_backoff = self.min_backoff
CmConnectOk(m) ==
    /\ LoopFree
    /\ cmPc[m] = "connecting"
    /\ clState' = [clState EXCEPT ![m] = "open"]
    /\ current_backoff' = [current_backoff EXCEPT ![m] = ResetBackoff(@)]
    /\ waited' = [waited EXCEPT ![m] = <<>>]
    /\ everConnected' = [everConnected EXCEPT ![m] = TRUE]
    /\ cmPc' = [cmPc EXCEPT ![m] = "connected"]
    /\ UNCHANGED <<discVars, subq, sub_loop, subCloseVars, cmEp, cmRunning,
                   cmStopped, attempts, slotVars>>
    /\ UNCHANGED <<pubVars, srvVars, codecVars, cfgVars, waitVars>>

\* if self._running: await asyncio.sleep(self.current_backoff)
CmSleep(m) ==
    IF cmRunning[m]
    THEN /\ waited' = [waited EXCEPT ![m] = Append(@, current_backoff[m])]
         /\ cmPc' = [cmPc EXCEPT ![m] = "backoff"]
    ELSE /\ cmPc' = [cmPc EXCEPT ![m] = "top"]
         /\ UNCHANGED waited

\* connect() raised: except Exception: pass
CmConnectFail(m) ==
    /\ LoopFree
    /\ cmPc[m] = "connecting"
    /\ CmSleep(m)
    /\ UNCHANGED <<discVars, subq, sub_loop, subCloseVars, cmEp, cmRunning,
                   cmStopped, current_backoff, everConnected, attempts,
                   clState, slotVars>>
    /\ UNCHANGED <<pubVars, srvVars, codecVars, cfgVars, waitVars>>

\* TCPClient._receive_loop ends on EOF or an error: self._running = False
ClientLost(m) ==
    /\ LoopFree
    /\ clState[m] = "open"
    /\ clState' = [clState EXCEPT ![m] = "lost"]
    /\ UNCHANGED <<discVars, subq, sub_loop, subCloseVars, cmEp, cmRunning,
                   cmPc, cmStopped, current_backoff, waited, everConnected,
                   attempts, slotVars>>
    /\ UNCHANGED <<pubVars, srvVars, codecVars, cfgVars, waitVars>>

\* (mutant) the supervisor takes every client for running
ClientRunning_Always(m) == TRUE
\* self.client._running
ClientRunning(m) == clState[m] = "open"

\* while self._running and self.client._running: await asyncio.sleep(0.1)
\* ends
CmPoll(m) ==
    /\ LoopFree
    /\ cmPc[m] = "connected"
    /\ ~(cmRunning[m] /\ ClientRunning(m))
    /\ CmSleep(m)
    /\ UNCHANGED <<discVars, subq, sub_loop, subCloseVars, cmEp, cmRunning,
                   cmStopped, current_backoff, everConnected, attempts,
                   clState, slotVars>>
    /\ UNCHANGED <<pubVars, srvVars, codecVars, cfgVars, waitVars>>

\* (mutant) the delay doubles without a cap
NextBackoff_NoCap(b) == b * 2
\* self.current_backoff = min(self.current_backoff * 2, self.max_backoff)
NextBackoff(b) == Min(b * 2, max_backoff)

\* the sleep ends; the delay is raised; back to the top of the loop
CmBackoffDone(m) ==
    /\ LoopFree
    /\ cmPc[m] = "backoff"
    /\ current_backoff' = [current_backoff EXCEPT ![m] = NextBackoff(@)]
    /\ cmPc' = [cmPc EXCEPT ![m] = "top"]
    /\ UNCHANGED <<discVars, subq, sub_loop, subCloseVars, cmEp, cmRunning,
                   cmStopped, waited, everConnected, attempts, clState,
                   slotVars>>
    /\ UNCHANGED <<pubVars, srvVars, codecVars, cfgVars, waitVars>>

\* (mutant) stop leaves the connect task alone
Cancel_Not(pc) == pc
\* if self._connect_task: self._connect_task.cancel(); await it.  A task
\* that was never created or has ended stays as it is.
Cancel(pc) == IF pc \in {"idle", "exit"} THEN pc ELSE "cancelled"

\* ConnectionManager.stop: self._running = False; client.stop(); the
\* connect task, if start created one and it has not ended, is cancelled
CmStop ==
    /\ LoopFree
    /\ subq # <<>>
    /\ Head(subq).kind = "stop"
    /\ LET m == Head(subq).m IN
          /\ cmRunning' = [cmRunning EXCEPT ![m] = FALSE]
          /\ clState' = [clState EXCEPT ![m] =
                            IF @ = "none" THEN "none" ELSE "closed"]
          /\ cmPc' = [cmPc EXCEPT ![m] = Cancel(@)]
          /\ cmStopped' = [cmStopped EXCEPT ![m] = TRUE]
    /\ subq' = Tail(subq)
    /\ UNCHANGED <<discVars, sub_loop, subCloseVars, cmEp, current_backoff,
                   waited, everConnected, attempts, slotVars>>
    /\ UNCHANGED <<pubVars, srvVars, codecVars, cfgVars, waitVars>>

\* self._loop.stop, scheduled by Subscriber.close
SubLoopStop ==
    /\ LoopFree
    /\ subq # <<>>
    /\ Head(subq).kind = "loopstop"
    /\ sub_loop' = FALSE
    /\ subq' = Tail(subq)
    /\ UNCHANGED <<discVars, subCloseVars, cmVars, slotVars>>
    /\ UNCHANGED <<pubVars, srvVars, codecVars, cfgVars, waitVars>>

(***************************************************************************)
(* Specifications of the publisher                                         *)
(***************************************************************************)
SendNext(senders, maxSends, bodies, args) ==
    \E s \in senders :
        \/ SendCall(s, maxSends, bodies, args)
        \/ SendPut(s)
        \/ SendDropOldest(s)
        \/ SendReput(s)

WorkerNext(backlog) ==
    \/ WorkerLoop
    \/ WorkerGet
    \/ WorkerTimeout
    \/ WorkerSend(backlog)

\* the queue under two concurrent senders and the worker; nobody connects
QueueInit ==
    PubInit /\ SrvInit /\ SubInit /\ CodecIdle /\ Construct(None)
QueueNext ==
    \/ SendNext(Senders, QueueSends, SmallBodies, PlainArgs)
    \/ WorkerNext(LoopBacklog)
    \/ Broadcast
SpecQueue == QueueInit /\ [][QueueNext]_vars

\* the whole publisher: one sender, the worker, the loop, the server with
\* its connections, and close.  ServerSends is below QueueMaxSize, so the
\* queue is never full here and send ends with its first put_nowait.
ServerInit ==
    PubInit /\ SrvInit /\ SubInit /\ CodecIdle /\ Construct(None)
ServerNext ==
    \/ SendCall("s1", ServerSends, BigBodies, PlainArgs)
    \/ SendPut("s1")
    \/ WorkerNext(ServerSends)
    \/ \E c \in Conns : Accept(c) \/ HandlerEOF(c) \/ Drain(c)
    \/ HandleClient
    \/ Broadcast
    \/ ServerStop
    \/ LoopStop
    \/ PubCloseCall
    \/ PubCloseStopServer
    \/ PubCloseUnregister
    \/ PubCloseReturn
SpecServer == ServerInit /\ [][ServerNext]_vars

(***************************************************************************)
(* Claims about the publisher                                              *)
(***************************************************************************)
\* C1: in every reachable state, for any interleaving of two concurrent
\* send callers and the send worker, the send queue holds at most 10 items.
C1_QueueAtMostTen == Len(send_queue) <= 10

\* C1 witness: the queue is full and a caller has just found it full.
C1_Witness ==
    /\ Len(send_queue) = 10
    /\ \E s \in Senders : sendPc[s] = "get"

\* C2: a send call that began on a queue of 10 items q1..q10 and during
\* which no other thread touched the queue returns with the queue holding
\* exactly q2..q10 followed by its own item.
C2_DropOldestKeepsOrder ==
    [][\A s \in Senders :
          ( /\ sendPc[s] # "idle"
            /\ sendPc'[s] = "idle"
            /\ sendAlone[s]
            /\ Len(sendSnap[s]) = 10 )
          => send_queue' = Tail(sendSnap[s]) \o <<sendItem[s]>>]_vars

\* C2 witness: the eleventh send has returned on a queue nobody else
\* touched: items 2..11 are queued, item 1 is gone.
C2_Witness ==
    /\ \A s \in Senders : sendPc[s] = "idle"
    /\ popCount = 0
    /\ Len(send_queue) = 10
    /\ \A i \in 1..10 : send_queue[i].id = i + 1

\* C3: on every connection the frames appear in the order in which the
\* worker popped their items, and every frame written is whole: a 4-byte
\* big-endian length that equals the length of the payload that follows it.
C3_FramesInPopOrder ==
    \A c \in Conns :
        /\ \A i, j \in 1..Len(wire[c]) :
              i < j => wire[c][i].data.pop < wire[c][j].data.pop
        /\ \A i \in 1..Len(wire[c]) :
              /\ Len(wire[c][i].length) = 4
              /\ Unpack32(wire[c][i].length) = wire[c][i].data.len

\* C3 witness: a connection has been written three frames.
C3_Witness == \E c \in Conns : Len(wire[c]) = 3

\* a step of the event loop that runs TCPServer.broadcast
BroadcastStep ==
    /\ loop_running
    /\ loopq # <<>>
    /\ Head(loopq).kind = "broadcast"
    /\ loopq' = Tail(loopq)

\* C8: in one broadcast a writer whose buffer is above 4 MiB is skipped for
\* that frame only (it stays in the writer set, is not closed, is written
\* nothing), and every writer whose buffer is at or below 4 MiB is written
\* the frame unless its own write raises; so a skipped writer is written
\* again as soon as its buffer is back at or below the mark.
C8_SkipAboveMarkOnly ==
    [][BroadcastStep =>
         \A w \in Range(clients) :
            /\ buf[w] > 4194304 =>
                  /\ w \in Range(clients')
                  /\ closedBy'[w] = closedBy[w]
                  /\ wire'[w] = wire[w]
            /\ buf[w] <= 4194304 =>
                  \/ wire'[w] = Append(wire[w], Message(Head(loopq).data))
                  \/ w \notin Range(clients') /\ closedBy'[w] = "broadcast"]_vars

\* C8 witness: a connection was written frame 1, skipped for frame 2 while
\* the other connection was written frame 2, and written frame 3.
C8_Witness ==
    \E c, d \in Conns :
        /\ c # d
        /\ Len(wire[c]) = 2
        /\ wire[c][1].data.pop = 1
        /\ wire[c][2].data.pop = 3
        /\ closedBy[c] = "no"
        /\ \E i \in 1..Len(wire[d]) : wire[d][i].data.pop = 2

\* C9: the writer list holds a writer only if its connection was accepted
\* and has since been neither EOF-detected, nor failed on a write, nor
\* closed by server stop; no writer is in it twice; subscriber_count is the
\* number of writers in it.
C9_WriterSetConsistent ==
    /\ \A c \in Range(clients) : handler[c] = "reading" /\ closedBy[c] = "no"
    /\ \A i, j \in 1..Len(clients) : i # j => clients[i] # clients[j]
    /\ subscriber_count = Cardinality(Range(clients))

\* C9 witness: one writer failed on a write and is gone from the list, the
\* other is still in it.
C9_Witness ==
    \E c, d \in Conns :
        /\ closedBy[c] = "broadcast"
        /\ clients = <<d>>
        /\ subscriber_count = 1


(***************************************************************************)
(* Subscriber._on_message, called by TCPClient._receive_loop on the event  *)
(* loop's thread, and Subscriber._callback_worker on its own thread.       *)
(* A payload is the n-th frame body received by the subscriber: len bytes, *)
(* the first of them the flags byte, the rest the encoded message.         *)
(***************************************************************************)
\* values of the flags byte that publishers put on the wire and one that
\* none does
PayloadFlags == {0, 3}
PayloadBodies == {"ok", "garbled", "raises"}
Payloads(n) ==
    {[n |-> n, len |-> 0, flags |-> 0, body |-> "none"]}
    \cup {[n |-> n, len |-> 2, flags |-> f, body |-> b] :
             f \in PayloadFlags, b \in PayloadBodies}

\* (mutant) a full slot keeps its value
deque_append_KeepsOld(dq, x, maxlen) ==
    IF Len(dq) >= maxlen THEN dq ELSE Append(dq, x)
\* collections.deque(maxlen=1).append: a full deque discards from the left
deque_append(dq, x, maxlen) ==
    IF Len(dq) >= maxlen THEN Tail(dq) \o <<x>> ELSE Append(dq, x)

\* length, payload = readexactly(4), readexactly(length);
\* self._callback(payload): if payload: self._msg_deque.append(payload)
RxAppendFrom(m, maxArrivals, payloads) ==
    /\ LoopFree
    /\ clState[m] = "open"
    /\ arrivals < maxArrivals
    /\ arrivals' = arrivals + 1
    /\ \E payload \in payloads :
          IF payload.len # 0
          THEN /\ msg_deque' = deque_append(msg_deque, payload, 1)
               /\ latest' = payload
               /\ rxPc' = "set"
          ELSE UNCHANGED <<msg_deque, latest, rxPc>>
    /\ UNCHANGED <<msg_event, cbPc, cbPayload, lastTaken, lastCalled>>
    /\ UNCHANGED <<discVars, subCloseVars, cmVars, subq, sub_loop>>
    /\ UNCHANGED <<pubVars, srvVars, codecVars, cfgVars, waitVars>>

\* the frame is one a publisher of this library can have sent, an empty
\* one, or one with mode bits 11
RxAppend(m, maxArrivals) ==
    RxAppendFrom(m, maxArrivals, Payloads(arrivals + 1))

\* self._msg_event.set()
RxSet ==
    /\ rxPc = "set"
    /\ msg_event' = TRUE
    /\ rxPc' = None
    /\ UNCHANGED <<msg_deque, cbPc, cbPayload, arrivals, latest, lastTaken,
                   lastCalled>>
    /\ UNCHANGED <<discVars, subCloseVars, cmVars, subq, sub_loop>>
    /\ UNCHANGED <<pubVars, srvVars, codecVars, cfgVars, waitVars>>

\* while self._running:
CbLoop ==
    /\ cbPc = "loop"
    /\ cbPc' = IF sub_running THEN "wait" ELSE "exit"
    /\ UNCHANGED <<msg_deque, msg_event, rxPc, cbPayload, arrivals, latest,
                   lastTaken, lastCalled>>
    /\ UNCHANGED <<discVars, subCloseVars, cmVars, subq, sub_loop>>
    /\ UNCHANGED <<pubVars, srvVars, codecVars, cfgVars, waitVars>>

\* self._msg_event.wait(timeout=0.1) returns because the event is set
CbWaitSignalled ==
    /\ cbPc = "wait"
    /\ msg_event
    /\ cbPc' = "clear"
    /\ UNCHANGED <<msg_deque, msg_event, rxPc, cbPayload, arrivals, latest,
                   lastTaken, lastCalled>>
    /\ UNCHANGED <<discVars, subCloseVars, cmVars, subq, sub_loop>>
    /\ UNCHANGED <<pubVars, srvVars, codecVars, cfgVars, waitVars>>

\* self._msg_event.wait(timeout=0.1) returns because 0.1 s have passed
CbWaitTimeout ==
    /\ cbPc = "wait"
    /\ ~msg_event
    /\ cbPc' = "clear"
    /\ UNCHANGED <<msg_deque, msg_event, rxPc, cbPayload, arrivals, latest,
                   lastTaken, lastCalled>>
    /\ UNCHANGED <<discVars, subCloseVars, cmVars, subq, sub_loop>>
    /\ UNCHANGED <<pubVars, srvVars, codecVars, cfgVars, waitVars>>

\* self._msg_event.clear()
CbClear ==
    /\ cbPc = "clear"
    /\ msg_event' = FALSE
    /\ cbPc' = "pop"
    /\ UNCHANGED <<msg_deque, rxPc, cbPayload, arrivals, latest, lastTaken,
                   lastCalled>>
    /\ UNCHANGED <<discVars, subCloseVars, cmVars, subq, sub_loop>>
    /\ UNCHANGED <<pubVars, srvVars, codecVars, cfgVars, waitVars>>

\* (mutant) the payload is read and left in the slot
deque_pop_Peek(dq) == dq
\* collections.deque.pop: what is left when the right end is removed
deque_pop(dq) == SubSeq(dq, 1, Len(dq) - 1)

\* payload = self._msg_deque.pop(); except IndexError: continue
CbPop ==
    /\ cbPc = "pop"
    /\ IF msg_deque = <<>>
       THEN /\ cbPc' = "loop"
            /\ UNCHANGED <<msg_deque, cbPayload, lastTaken>>
       ELSE /\ cbPayload' = msg_deque[Len(msg_deque)]
            /\ lastTaken' = msg_deque[Len(msg_deque)]
            /\ msg_deque' = deque_pop(msg_deque)
            /\ cbPc' = "process"
    /\ UNCHANGED <<msg_event, rxPc, arrivals, latest, lastCalled>>
    /\ UNCHANGED <<discVars, subCloseVars, cmVars, subq, sub_loop>>
    /\ UNCHANGED <<pubVars, srvVars, codecVars, cfgVars, waitVars>>

\* compression_mode = flags & 0x03
compression_mode(flags) == flags % 4
\* deserialize / decompress return a message rather than raise
Decodes(payload) == payload.body \in {"ok", "raises"}
\* self.callback(msg) raises an Exception on this message
Raises(payload) == payload.body = "raises"

\* the callback is invoked for this payload
Invokes(payload) ==
    compression_mode(payload.flags) \in {0, 1, 2} /\ Decodes(payload)

\* (mutant) nothing catches an exception raised inside the try block
AfterProcess_Uncaught(payload) ==
    IF compression_mode(payload.flags) \in {0, 1, 2}
       /\ (~Decodes(payload) \/ Raises(payload))
    THEN "exit" ELSE "loop"
\* where the worker goes after the try block: the `continue` of the unknown
\* mode, the except clause and the return of the callback all lead back to
\* the loop test
AfterProcess(payload) ==
    CASE compression_mode(payload.flags) = 3 -> "loop"
      [] ~Decodes(payload) \/ Raises(payload) -> "loop"
      [] OTHER -> "loop"

\* decode the payload and call self.callback(msg); an unknown mode or an
\* exception is logged and the payload is dropped
CbProcess ==
    /\ cbPc = "process"
    /\ lastCalled' = IF Invokes(cbPayload) THEN cbPayload ELSE lastCalled
    /\ cbPc' = AfterProcess(cbPayload)
    /\ UNCHANGED <<msg_deque, msg_event, rxPc, cbPayload, arrivals, latest,
                   lastTaken>>
    /\ UNCHANGED <<discVars, subCloseVars, cmVars, subq, sub_loop>>
    /\ UNCHANGED <<pubVars, srvVars, codecVars, cfgVars, waitVars>>

(***************************************************************************)
(* Subscriber.close, called by a user thread                               *)
(***************************************************************************)
\* (mutant) close has no guard
SubCloseReturnsAtOnce_Never == FALSE
\* if not self._running: return
SubCloseReturnsAtOnce == ~sub_running

\* close(): the guard, and self._running = False.  A call can be made when
\* no call is in progress: the last one returned or raised.
SubCloseCall ==
    /\ subClosePc \in {"idle", "raised"}
    /\ subCloseCalls < MaxCloseCalls
    /\ subCloseCalls' = subCloseCalls + 1
    /\ IF SubCloseReturnsAtOnce
       THEN UNCHANGED <<subClosePc, sub_running>>
       ELSE /\ sub_running' = FALSE
            /\ subClosePc' = "set"
    /\ UNCHANGED <<subLog, closeKeys, closeSeen>>
    /\ UNCHANGED <<discVars, cmVars, slotVars, subq, sub_loop>>
    /\ UNCHANGED <<pubVars, srvVars, codecVars, cfgVars, waitVars>>

\* self._msg_event.set()
SubCloseSet ==
    /\ subClosePc = "set"
    /\ msg_event' = TRUE
    /\ subClosePc' = "join"
    /\ UNCHANGED <<sub_running, subCloseCalls, subLog, closeKeys, closeSeen>>
    /\ UNCHANGED <<msg_deque, rxPc, cbPc, cbPayload, arrivals, latest,
                   lastTaken, lastCalled>>
    /\ UNCHANGED <<discVars, cmVars, subq, sub_loop>>
    /\ UNCHANGED <<pubVars, srvVars, codecVars, cfgVars, waitVars>>

\* self._callback_thread.join(timeout=1.0) returns: the worker has ended or
\* the second has passed; iter(self._connections.values()) notes the size
\* of the dict
SubCloseJoin ==
    /\ subClosePc = "join"
    /\ closeKeys' = Keys(connections)
    /\ closeSeen' = {}
    /\ subClosePc' = "stopping"
    /\ UNCHANGED <<sub_running, subCloseCalls, subLog>>
    /\ UNCHANGED <<discVars, cmVars, slotVars, subq, sub_loop>>
    /\ UNCHANGED <<pubVars, srvVars, codecVars, cfgVars, waitVars>>

\* for conn in self._connections.values(): the next value, the end of the
\* iteration, or RuntimeError because the dict has changed size; the lock
\* is not taken.  For a value, conn.stop() is scheduled on the loop.
SubCloseStopNext ==
    /\ subClosePc = "stopping"
    /\ IF Cardinality(Keys(connections)) # Cardinality(closeKeys)
       THEN /\ subClosePc' = "raised"
            /\ UNCHANGED <<subq, closeSeen>>
       ELSE IF Keys(connections) \ closeSeen = {}
       THEN /\ subClosePc' = "clear"
            /\ UNCHANGED <<subq, closeSeen>>
       ELSE \E k \in Keys(connections) \ closeSeen :
               /\ subq' = run_coroutine_threadsafe(
                             subq, [kind |-> "stop", m |-> connections[k]])
               /\ closeSeen' = closeSeen \cup {k}
               /\ subClosePc' = "result"
    /\ UNCHANGED <<sub_running, subCloseCalls, subLog, closeKeys>>
    /\ UNCHANGED <<discVars, cmVars, slotVars, sub_loop>>
    /\ UNCHANGED <<pubVars, srvVars, codecVars, cfgVars, waitVars>>

\* future.result(timeout=1.0) returns, or raises and except: pass
SubCloseResult ==
    /\ subClosePc = "result"
    /\ subClosePc' = "stopping"
    /\ UNCHANGED <<sub_running, subCloseCalls, subLog, closeKeys, closeSeen>>
    /\ UNCHANGED <<discVars, cmVars, slotVars, subq, sub_loop>>
    /\ UNCHANGED <<pubVars, srvVars, codecVars, cfgVars, waitVars>>

\* self._connections.clear()
SubCloseClear ==
    /\ subClosePc = "clear"
    /\ connections' = [k \in DOMAIN connections |-> None]
    /\ released' = released \cup {connections[k] : k \in Keys(connections)}
    /\ subClosePc' = "discovery"
    /\ UNCHANGED <<sub_running, subCloseCalls, subLog, closeKeys, closeSeen>>
    /\ UNCHANGED <<browsing, discPc, evCount, lastEvent>>
    /\ UNCHANGED <<cmVars, slotVars, subq, sub_loop>>
    /\ UNCHANGED <<pubVars, srvVars, codecVars, cfgVars, waitVars>>

\* self.discovery.close(); self._loop.call_soon_threadsafe(self._loop.stop)
SubCloseDiscovery ==
    /\ subClosePc = "discovery"
    /\ browsing' = FALSE
    /\ subq' = Append(subq, [kind |-> "loopstop", m |-> "none"])
    /\ subClosePc' = "joinloop"
    /\ UNCHANGED <<sub_running, subCloseCalls, subLog, closeKeys, closeSeen>>
    /\ UNCHANGED <<connections, discPc, evCount, lastEvent, released>>
    /\ UNCHANGED <<cmVars, slotVars, sub_loop>>
    /\ UNCHANGED <<pubVars, srvVars, codecVars, cfgVars, waitVars>>

\* self._loop_thread.join(timeout=1.0) returns; _log("Subscriber closed ...")
SubCloseReturn ==
    /\ subClosePc = "joinloop"
    /\ subLog' = subLog + 1
    /\ subClosePc' = "idle"
    /\ UNCHANGED <<sub_running, subCloseCalls, closeKeys, closeSeen>>
    /\ UNCHANGED <<discVars, cmVars, slotVars, subq, sub_loop>>
    /\ UNCHANGED <<pubVars, srvVars, codecVars, cfgVars, waitVars>>

(***************************************************************************)
(* Specification of the reconnection backoff: supervisors are created by   *)
(* found events and are never stopped; every connect attempt may succeed   *)
(* or fail and every open connection may be lost.                          *)
(***************************************************************************)
\* found events delivered
BackoffFounds == 2
\* connect attempts made by all supervisors together
MaxAttempts == 8

BackoffInit ==
    PubInit /\ SrvInit /\ SubInit /\ CodecIdle /\ Construct(None)

BackoffNext ==
    \/ \E d \in DiscThreads, e \in Endpoints : FoundLocked(d, e, BackoffFounds)
    \/ \E d \in DiscThreads : DiscSchedule(d)
    \/ CmStart
    \/ \E m \in Sups : CmTop(m, MaxAttempts)
    \/ \E m \in Sups : CmConnectOk(m)
    \/ \E m \in Sups : CmConnectFail(m)
    \/ \E m \in Sups : ClientLost(m)
    \/ \E m \in Sups : CmPoll(m)
    \/ \E m \in Sups : CmBackoffDone(m)

SpecBackoff == BackoffInit /\ [][BackoffNext]_vars

RECURSIVE Pow2(_)
Pow2(n) == IF n = 0 THEN 1 ELSE 2 * Pow2(n - 1)

\* C4: a supervisor that was started, is not stopped and has not connected
\* since it was started waits min(2^(k-1), 32) seconds before its k-th
\* retry (1, 2, 4, 8, 16, 32, 32, ...), and its next delay is already set
\* when it makes the attempt; whatever the outcomes of the attempts, no
\* delay exceeds 32 and the delays since the last successful connection
\* never decrease.
C4_BackoffSchedule ==
    \A m \in Sups :
       (cmRunning[m] /\ ~cmStopped[m]) =>
          /\ ~everConnected[m] =>
                /\ \A k \in 1..Len(waited[m]) :
                      waited[m][k] = Min(Pow2(k - 1), 32)
                /\ cmPc[m] = "connecting" =>
                      current_backoff[m] = Min(Pow2(Len(waited[m])), 32)
          /\ \A k \in 1..Len(waited[m]) : waited[m][k] <= 32
          /\ \A j, k \in 1..Len(waited[m]) :
                j <= k => waited[m][j] <= waited[m][k]

\* a supervisor has failed eight times in a row: its seventh and eighth
\* delays were both 32
C4_Witness ==
    \E m \in Sups :
       /\ cmRunning[m] /\ ~everConnected[m]
       /\ Len(waited[m]) = 8
       /\ waited[m][6] = 32 /\ waited[m][8] = 32


(***************************************************************************)
(* Specification of the dispatch: a running subscriber connects to the     *)
(* publishers it finds and receives frames from them.  The worker thread   *)
(* and the receive callback always get to run their next step; only the    *)
(* 0.1 s timeout of the wait is left out of the fairness conditions, so    *)
(* that progress is owed to the event alone.                               *)
(***************************************************************************)
\* frames received from all publishers together
MaxArrivals == 3
\* connect attempts
DispatchAttempts == 2

DispatchInit ==
    PubInit /\ SrvInit /\ SubInit /\ CodecIdle /\ Construct(None)

DispatchNext ==
    \/ \E d \in DiscThreads, e \in Endpoints : FoundLocked(d, e, BackoffFounds)
    \/ \E d \in DiscThreads : DiscSchedule(d)
    \/ CmStart
    \/ \E m \in Sups : CmTop(m, DispatchAttempts)
    \/ \E m \in Sups : CmConnectOk(m)
    \/ \E m \in Sups : RxAppend(m, MaxArrivals)
    \/ RxSet
    \/ CbLoop
    \/ CbWaitSignalled
    \/ CbWaitTimeout
    \/ CbClear
    \/ CbPop
    \/ CbProcess

SpecDispatch ==
    /\ DispatchInit
    /\ [][DispatchNext]_vars
    /\ WF_vars(RxSet)
    /\ WF_vars(CbLoop)
    /\ WF_vars(CbWaitSignalled)
    /\ WF_vars(CbClear)
    /\ WF_vars(CbPop)
    /\ WF_vars(CbProcess)

\* a payload is in the slot, the receive callback has returned and the worker
\* is at or before its wait: the event is set
NoLostWakeup ==
    (msg_deque # <<>> /\ rxPc = None /\ cbPc \in {"loop", "wait"}) => msg_event

\* the worker has taken the last payload that arrived and, if that payload
\* is decodable, the last callback invocation was for it
LatestDelivered ==
    latest # NoPayload =>
       /\ lastTaken = latest
       /\ Invokes(latest) => lastCalled = latest

\* C5: whenever a payload is in the slot and the receive callback has
\* returned, a worker that is about to wait finds the event set (no wake-up
\* is lost), and once payloads stop arriving the worker eventually has
\* taken the last payload that arrived and the last callback invocation is
\* for it if it is decodable.
C5_LatestWins == []NoLostWakeup /\ <>[]LatestDelivered

\* the third payload that arrived has been taken and handed to the callback,
\* the slot is empty and the worker is back at its wait with the event set
C5_Witness ==
    /\ latest.n = 3 /\ lastCalled = latest
    /\ msg_deque = <<>> /\ msg_event /\ cbPc = "wait"


(***************************************************************************)
(* Specification of the connection table: two discovery threads deliver    *)
(* found and removed events in any order and interleaving; the event loop  *)
(* starts and stops the supervisors.                                       *)
(***************************************************************************)
\* discovery events delivered
TableEvents == 4
\* connect attempts
TableAttempts == 2

TableInit ==
    PubInit /\ SrvInit /\ SubInit /\ CodecIdle /\ Construct(None)

TableNext ==
    \/ \E d \in DiscThreads, e \in Endpoints : FoundLocked(d, e, TableEvents)
    \/ \E d \in DiscThreads, e \in Endpoints : RemovedLocked(d, e, TableEvents)
    \/ \E d \in DiscThreads : DiscSchedule(d)
    \/ CmStart
    \/ CmStop
    \/ \E m \in Sups : CmTop(m, TableAttempts)
    \/ \E m \in Sups : CmConnectOk(m)

SpecTable == TableInit /\ [][TableNext]_vars

\* every supervisor that was created for an endpoint and has not been taken
\* out of the table is the table's entry for that endpoint
OnePerEndpoint ==
    \A m \in Sups :
       (cmEp[m] # NoEndpoint /\ m \notin released) => connections[conn_id(cmEp[m])] = m

\* the step handles a discovery event of this kind for an endpoint that is
\* (present = TRUE) or is not (present = FALSE) in the table
EventStep(kind, present) ==
    /\ evCount' = evCount + 1
    /\ lastEvent'.kind = kind
    /\ (connections[conn_id(lastEvent'.ep)] # None) = present

\* C6: at all times at most one live supervisor exists per endpoint and it
\* is the table's entry for it; a found event for an endpoint in the table
\* creates no supervisor and schedules no start, and a removed event for an
\* endpoint not in the table changes nothing.
C6_TableUniqueness ==
    /\ []OnePerEndpoint
    /\ [][(EventStep("found", TRUE) \/ EventStep("removed", FALSE)) =>
             UNCHANGED <<connections, discPc, released, subq, cmVars>>]_vars

\* four events were delivered, the last a removed one; one supervisor was
\* ever created and it has been removed: two of the events were a found for
\* a present endpoint or a removed for an absent one
C6_Witness ==
    /\ evCount = 4 /\ lastEvent.kind = "removed"
    /\ Cardinality({m \in Sups : cmEp[m] # NoEndpoint}) = 1
    /\ released # {}
    /\ Keys(connections) = {}


(***************************************************************************)
(* Specification of close: a process holds a publisher and a subscriber    *)
(* and calls close on each of them, more than once; meanwhile discovery    *)
(* reports publishers to the subscriber and the workers and event loops    *)
(* of both run.                                                            *)
(***************************************************************************)
\* discovery events delivered
CloseEvents == 1

CloseInit ==
    PubInit /\ SrvInit /\ SubInit /\ CodecIdle /\ Construct(None)

CloseNext ==
    \/ PubCloseCall
    \/ PubCloseStopServer
    \/ PubCloseUnregister
    \/ PubCloseReturn
    \/ WorkerLoop
    \/ WorkerTimeout
    \/ ServerStop
    \/ LoopStop
    \/ \E d \in DiscThreads, e \in Endpoints : FoundLocked(d, e, CloseEvents)
    \/ \E d \in DiscThreads : DiscSchedule(d)
    \/ CmStart
    \/ CmStop
    \/ SubLoopStop
    \/ CbLoop
    \/ CbWaitSignalled
    \/ CbWaitTimeout
    \/ CbClear
    \/ CbPop
    \/ SubCloseCall
    \/ SubCloseSet
    \/ SubCloseJoin
    \/ SubCloseStopNext
    \/ SubCloseResult
    \/ SubCloseClear
    \/ SubCloseDiscovery
    \/ SubCloseReturn

SpecClose == CloseInit /\ [][CloseNext]_vars

\* the step is a call of Publisher.close made after a call has returned
PubCloseAgain ==
    closePc = "idle" /\ closeCalls >= 1 /\ closeCalls' = closeCalls + 1
\* the step is a call of Subscriber.close made after a call has returned
SubCloseAgain ==
    /\ subClosePc = "idle" /\ subCloseCalls >= 1
    /\ subCloseCalls' = subCloseCalls + 1

\* C7: a call of close on a publisher, or on a subscriber, made after an
\* earlier call has returned returns at once: it raises nothing, logs
\* nothing and leaves every field of the object, its server or supervisors,
\* its loop's ready queue and its discovery handle as they were.
C7_CloseIdempotent ==
    [][/\ PubCloseAgain =>
             /\ closePc' = "idle"
             /\ UNCHANGED <<send_queue, pub_running, workerPc, workerData,
                            pubLog, registered, srvVars>>
       /\ SubCloseAgain =>
             /\ subClosePc' = "idle"
             /\ UNCHANGED <<sub_running, subLog, closeKeys, closeSeen,
                            connections, browsing, released, subq, sub_loop,
                            cmVars, msg_deque, msg_event>>]_vars

\* close has been called twice on each object and has logged once on each
C7_Witness ==
    /\ closePc = "idle" /\ closeCalls = 2 /\ pubLog = 1
    /\ subClosePc = "idle" /\ subCloseCalls = 2 /\ subLog = 1
    /\ \E m \in Sups : cmStopped[m]


(***************************************************************************)
(* Specification of the codec: a value of the supported grammar and a hint *)
(* are chosen, the value is serialized and the bytes are deserialized.     *)
(***************************************************************************)
\* the values given to serialize: the scalars, lists of up to two values,
\* mappings of up to two keys, and some values of depth two
MapKeys == {"a", "data", "__type", "__ndarray"}
Values ==
    LET Scalars ==
            {Nil, Bool(FALSE), Bool(TRUE), Integer(0), Integer(1),
             Integer(127), Integer(-1), Integer(-32), Str(""), Str("a"),
             Str("T"), Bin(<<>>), Bin(<<1, 255>>)}
        Inner == {Nil, Bool(TRUE), Integer(1), Str("T")}
        Lists1 == {List(<<>>)} \cup {List(<<x>>) : x \in Inner}
                     \cup {List(<<x, y>>) : x, y \in Inner}
        Maps1 == {Dict(<<>>)}
                    \cup {Dict(<< <<k, x>> >>) : k \in MapKeys, x \in Inner}
                    \cup {Dict(<< <<j, x>>, <<k, y>> >>) :
                             <<j, k>> \in {p \in MapKeys \X MapKeys :
                                              p[1] # p[2]},
                             x, y \in Inner}
        Nested ==
            {List(<<Dict(<< <<"__type", Str("T")>>,
                            <<"data", Integer(1)>> >>)>>),
             List(<<List(<<Integer(1)>>), Nil>>),
             Dict(<< <<"a", List(<<Integer(1), Str("a")>>)>> >>),
             Dict(<< <<"a", Dict(<< <<"data", Nil>> >>)>>,
                     <<"data", Bin(<<>>)>> >>)}
    IN  Scalars \cup Lists1 \cup Maps1 \cup Nested
\* numpy arrays
Arrays == {Ndarray("uint8", <<Integer(2)>>, <<1, 2>>),
           Ndarray("uint8", <<Integer(0)>>, <<>>)}
Hints == {None, "", "T"}

\* numpy is or is not installed; a call of serialize is about to be made
CodecStart ==
    /\ HAS_NUMPY \in BOOLEAN
    /\ codecPc = "start"
    /\ value \in Values \cup (IF HAS_NUMPY THEN Arrays ELSE {})
    /\ type_hint \in Hints
    /\ packed = <<>>
    /\ unpacked = Nil

CodecInit ==
    PubInit /\ SrvInit /\ SubInit /\ CodecStart /\ Construct(None)

CodecNext == Serialize \/ Deserialize

SpecCodec == CodecInit /\ [][CodecNext]_vars

\* C10: a value of the supported grammar that is serialized with no type
\* hint and then deserialized comes back equal to itself, mappings whose
\* keys are exactly "__type" and "data" included.
C10_RoundTrip ==
    (codecPc = "unpacked" /\ type_hint = None /\ value \in Values) =>
       unpacked = value


\* the entries of a dict other than the one of key k
RECURSIVE Without(_, _)
Without(kvs, k) ==
    IF kvs = <<>> THEN <<>>
    ELSE IF Head(kvs)[1] = k THEN Without(Tail(kvs), k)
    ELSE <<Head(kvs)>> \o Without(Tail(kvs), k)

\* C11: a mapping M serialized with a non-empty hint H and deserialized is
\* a mapping whose first key is "__type" with value H and whose other
\* entries are those of M, whatever the keys of M are.
C11_HintOnMapping ==
    (codecPc = "unpacked" /\ value.t = "map" /\ Hinted(type_hint)) =>
       /\ unpacked.t = "map"
       /\ unpacked.v # <<>>
       /\ unpacked.v[1] = <<"__type", Str(type_hint)>>
       /\ Tail(unpacked.v) = Without(value.v, "__type")

\* C12: a value V that is neither a mapping nor an array, serialized with a
\* non-empty hint H, is encoded as the two-key mapping {"__type": H,
\* "data": V}, and deserialize of that encoding returns V.
C12_HintOnNonMapping ==
    (value.t \notin {"map", "ndarray"} /\ Hinted(type_hint)) =>
       /\ codecPc \in {"packed", "unpacked"} =>
             unpackb(packed) =
                Dict(<< <<"__type", Str(type_hint)>>, <<"data", value>> >>)
       /\ codecPc = "unpacked" => unpacked = value

\* the list [1, "T"] sent with hint "T" has come back as itself
C12_Witness ==
    /\ codecPc = "unpacked" /\ type_hint = "T"
    /\ value = List(<<Integer(1), Str("T")>>)
    /\ unpacked = value


(***************************************************************************)
(* Specification of the encoding: a publisher is constructed with any      *)
(* compression mode, one thread calls send with values and hints, the      *)
(* worker encodes what it pops and the loop broadcasts to nobody.          *)
(***************************************************************************)
\* calls of send
EncodeSends == 2
\* the compression argument of the constructor
Modes == {None, "", "image", "pointcloud", "zip"}
\* the arguments of send
EncodeArgs ==
    {[value |-> x, hint |-> h] :
        x \in {Integer(1), Dict(<< <<"a", Integer(1)>> >>),
               List(<<Integer(1), Str("T")>>),
               Tuple(<<Integer(1), Str("T")>>), Tuple(<<Str("a")>>)},
        h \in {None, "", "T"}}

EncodeInit ==
    /\ PubInit /\ SrvInit /\ SubInit /\ CodecIdle
    /\ \E mode \in Modes : Construct(mode)

EncodeNext ==
    \/ SendCall("s1", EncodeSends, {Spelled}, EncodeArgs)
    \/ SendPut("s1")
    \/ WorkerNext(EncodeSends)
    \/ Broadcast

SpecEncode == EncodeInit /\ [][EncodeNext]_vars

\* the worker leaves its try block
WorkerSendStep == workerPc = "send" /\ workerPc' = "loop"

\* C13: with no compression, what the worker schedules for an item is one
\* broadcast of the byte 0 followed by serialize(value, type_hint) for the
\* value and the hint that were given to the call of send, whatever the
\* value is.
C13_PayloadIsEncodingOfCall ==
    [][(WorkerSendStep /\ compression = None) =>
          /\ Len(loopq') = Len(loopq) + 1
          /\ LET payload == loopq'[Len(loopq')].data
                 given == workerData.item.given
             IN  /\ payload.flags = 0
                 /\ payload.bytes = serialize(given.value, given.hint)]_vars

\* C14: a publisher whose compression mode is not none, "image" or
\* "pointcloud" does not exist: no server listens, no discovery record is
\* registered, nothing is queued for broadcast.
C14_UnknownModeRefused ==
    compression \notin {None, "", "image", "pointcloud"} =>
       /\ ~listening
       /\ ~registered
       /\ \A i \in 1..Len(loopq) : loopq[i].kind # "broadcast"


(***************************************************************************)
(* Specification of wait_for_subscribers: subscribers connect to and       *)
(* disconnect from the publisher's server while a user thread makes one    *)
(* call, with any count and any timeout, and time passes.                  *)
(***************************************************************************)
\* the latest time
MaxTime == 3
WaitCounts == {0, 1, 2}
\* timeouts in polling intervals; 0 is timeout=0
WaitTimeouts == {0, 1, 2}

WaitInit == PubInit /\ SrvInit /\ SubInit /\ CodecIdle /\ Construct(None)

WaitNext ==
    \/ \E c \in Conns : Accept(c) \/ HandlerEOF(c)
    \/ HandleClient
    \/ Tick(MaxTime)
    \/ WaitCall(WaitCounts, WaitTimeouts)
    \/ WaitTest
    \/ WaitPoll
    \/ WaitWake

SpecWait == WaitInit /\ [][WaitNext]_vars

\* C15: a call of wait_for_subscribers made when subscriber_count >= n
\* returns true, for every timeout >= 0, timeout 0 included.
C15_TrueWhenEnoughAtCall ==
    (waiter.pc = "done" /\ waiter.atCall) => waiter.result = "true"


(***************************************************************************)
(* Specification of reconnection: supervisors are created and removed by   *)
(* discovery; connections are lost and connect attempts fail a bounded     *)
(* number of times, after which every endpoint accepts connections; frames *)
(* arrive on open connections.  The event loop always gets to run the next *)
(* step of each of its coroutines.                                         *)
(***************************************************************************)
\* connect attempts after which nothing fails any more
ReconnectFaults == 2
\* discovery events delivered
ReconnectEvents == 2
\* frames received
ReconnectArrivals == 1

ReconnectInit ==
    PubInit /\ SrvInit /\ SubInit /\ CodecIdle /\ Construct(None)

\* connections may still fail
Faulty == attempts < ReconnectFaults

ReconnectNext ==
    \/ \E d \in DiscThreads, e \in Endpoints :
          FoundLocked(d, e, ReconnectEvents)
    \/ \E d \in DiscThreads, e \in Endpoints :
          RemovedLocked(d, e, ReconnectEvents)
    \/ \E d \in DiscThreads : DiscSchedule(d)
    \/ CmStart
    \/ CmStop
    \/ \E m \in Sups : CmTop(m, ReconnectFaults + Len(SupOrder))
    \/ \E m \in Sups : CmConnectOk(m)
    \/ \E m \in Sups : Faulty /\ CmConnectFail(m)
    \/ \E m \in Sups : Faulty /\ ClientLost(m)
    \/ \E m \in Sups : CmPoll(m)
    \/ \E m \in Sups : CmBackoffDone(m)
    \/ \E m \in Sups : RxAppend(m, ReconnectArrivals)
    \/ RxSet

SpecReconnect ==
    /\ ReconnectInit
    /\ [][ReconnectNext]_vars
    /\ WF_vars(RxSet)
    /\ WF_vars(CmStart)
    /\ WF_vars(CmStop)
    /\ \A m \in Sups :
          /\ WF_vars(CmTop(m, ReconnectFaults + Len(SupOrder)))
          /\ WF_vars(CmConnectOk(m))
          /\ WF_vars(CmPoll(m))
          /\ WF_vars(CmBackoffDone(m))

\* the stream of the supervisor's client has ended and the supervisor has
\* not been told to stop
LostUnstopped(m) == clState[m] = "lost" /\ cmRunning[m]

\* C16: when the stream of a connected client ends, the client is marked
\* not running and, unless the supervisor is stopped, the supervisor is
\* eventually connected again with a client whose receive loop runs, once
\* the endpoint accepts connections; and a supervisor gets connected by
\* nothing but a connect attempt of its own with a new client.
C16_ReconnectLiveness ==
    /\ \A m \in Sups :
          LostUnstopped(m) ~>
             (~cmRunning[m] \/ (cmPc[m] = "connected" /\ clState[m] = "open"))
    /\ [][\A m \in Sups :
            (cmPc'[m] = "connected" /\ cmPc[m] # "connected") =>
               (cmPc[m] = "connecting" /\ clState[m] = "new")]_vars

\* a supervisor that was connected has waited one second after the loss of
\* its connection and is making a new connect attempt
C16_Witness ==
    \E m \in Sups :
       /\ everConnected[m] /\ cmRunning[m]
       /\ waited[m] = <<1>>
       /\ cmPc[m] = "connecting" /\ clState[m] = "new"


\* the user callback is running (or blocked) on the worker thread
InCallback == cbPc = "process"

\* C17: the user callback is invoked by a step of the dispatch worker only,
\* a step that touches neither the receive callback nor the slot, and the
\* receive callback only fills the slot and sets the event; so while a user
\* callback is running, for however long, every open connection whose next
\* frame is there can still have it read and put in the slot.
C17_CallbackOffReceiveLoop ==
    /\ [](InCallback =>
            \A m \in Sups :
               (/\ clState[m] = "open" /\ sub_loop /\ rxPc = None
                /\ arrivals < MaxArrivals)
                  => ENABLED RxAppend(m, MaxArrivals))
    /\ [][lastCalled' # lastCalled =>
             (InCallback /\ cbPc' = "loop"
              /\ UNCHANGED <<rxPc, msg_deque, msg_event, arrivals>>)]_vars
    /\ [][(arrivals' # arrivals \/ rxPc' # rxPc) =>
             UNCHANGED <<cbPc, cbPayload, lastTaken, lastCalled>>]_vars

\* the callback is still running for the first payload and the third has
\* already replaced the second in the slot
C17_Witness ==
    /\ InCallback /\ cbPayload.n = 1
    /\ msg_deque # <<>> /\ msg_deque[1].n = 3


(***************************************************************************)
(* Specification of the dispatch worker against bad payloads: one          *)
(* publisher is found and connected to, and its frames carry every mode    *)
(* and every kind of body.  Fairness is that of the dispatch               *)
(* specification.                                                          *)
(***************************************************************************)
\* found events delivered
CallbackFounds == 1
\* connect attempts
CallbackAttempts == 1
\* frames received
CallbackArrivals == 3

CallbackInit ==
    PubInit /\ SrvInit /\ SubInit /\ CodecIdle /\ Construct(None)

CallbackNext ==
    \/ \E d \in DiscThreads, e \in Endpoints :
          FoundLocked(d, e, CallbackFounds)
    \/ \E d \in DiscThreads : DiscSchedule(d)
    \/ CmStart
    \/ \E m \in Sups : CmTop(m, CallbackAttempts)
    \/ \E m \in Sups : CmConnectOk(m)
    \/ \E m \in Sups : RxAppend(m, CallbackArrivals)
    \/ RxSet
    \/ CbLoop
    \/ CbWaitSignalled
    \/ CbWaitTimeout
    \/ CbClear
    \/ CbPop
    \/ CbProcess

SpecCallback ==
    /\ CallbackInit
    /\ [][CallbackNext]_vars
    /\ WF_vars(RxSet)
    /\ WF_vars(CbLoop)
    /\ WF_vars(CbWaitSignalled)
    /\ WF_vars(CbClear)
    /\ WF_vars(CbPop)
    /\ WF_vars(CbProcess)

\* the worker thread leaves the try block of _callback_worker
ProcessStep == cbPc = "process" /\ cbPc' # "process"
\* the payload the worker holds yields no callback result
Fruitless(payload) == ~Invokes(payload) \/ Raises(payload)

\* C18: while the subscriber is running the dispatch worker has not
\* terminated; the step that ends the processing of a payload with mode
\* bits 11, with an undecodable body or with a callback that raises takes
\* the worker back to its loop test, leaves every client as it was and,
\* when the callback was not reached, leaves the last invocation as it was;
\* the worker then reaches its wait again, and every payload that is in the
\* slot is eventually taken, or a later one is.
C18_WorkerSurvivesBadPayloads ==
    /\ [](sub_running => cbPc # "exit")
    /\ [][(ProcessStep /\ Fruitless(cbPayload)) =>
             (/\ cbPc' = "loop"
              /\ UNCHANGED <<clState, cmRunning, connections>>
              /\ ~Invokes(cbPayload) => UNCHANGED lastCalled)]_vars
    /\ ((cbPc = "process" /\ Fruitless(cbPayload)) ~> (cbPc = "wait"))
    /\ \A n \in 1..CallbackArrivals :
          (msg_deque # <<>> /\ msg_deque[1].n = n) ~> (lastTaken.n >= n)

\* the callback raised on the first payload and the worker went on to take
\* the second, which had mode bits 11 and was dropped without a callback;
\* the worker is at its wait again, the third payload is in the slot and
\* the client is still open
C18_Witness ==
    /\ cbPc = "wait" /\ sub_running
    /\ \E m \in Sups : clState[m] = "open"
    /\ lastCalled.n = 1 /\ Raises(lastCalled)
    /\ lastTaken.n = 2 /\ compression_mode(lastTaken.flags) = 3
    /\ msg_deque # <<>> /\ msg_deque[1].n = 3


(***************************************************************************)
(* Specification of Subscriber.close against discovery: the discovery      *)
(* threads deliver found and removed events at any time until              *)
(* discovery.close() has been called, the event loop starts and stops      *)
(* supervisors, and a user thread calls close.  No timeout of close        *)
(* expires: future.result returns when conn.stop() has run and the join of *)
(* the loop thread returns when the loop has stopped.                      *)
(***************************************************************************)
\* discovery events delivered
ShutdownEvents == 2
\* connect attempts
ShutdownAttempts == 1

ShutdownInit ==
    PubInit /\ SrvInit /\ SubInit /\ CodecIdle /\ Construct(None)

\* the coroutine close scheduled last has run
StopHasRun == \A i \in 1..Len(subq) : subq[i].kind # "stop"

ShutdownNext ==
    \/ \E d \in DiscThreads, e \in Endpoints :
          FoundLocked(d, e, ShutdownEvents)
    \/ \E d \in DiscThreads, e \in Endpoints :
          RemovedLocked(d, e, ShutdownEvents)
    \/ \E d \in DiscThreads : DiscSchedule(d)
    \/ CmStart
    \/ \E m \in Sups : CmTop(m, ShutdownAttempts)
    \/ \E m \in Sups : CmConnectOk(m)
    \/ CmStop
    \/ SubLoopStop
    \/ SubCloseCall
    \/ SubCloseSet
    \/ SubCloseJoin
    \/ SubCloseStopNext
    \/ StopHasRun /\ SubCloseResult
    \/ SubCloseClear
    \/ SubCloseDiscovery
    \/ ~sub_loop /\ SubCloseReturn

SpecShutdown == ShutdownInit /\ [][ShutdownNext]_vars

\* a call of Subscriber.close has returned
SubClosed == subClosePc = "idle" /\ subCloseCalls >= 1
\* the supervisors the subscriber has created
Created == {m \in Sups : cmEp[m] # NoEndpoint}

\* C19: once a call of Subscriber.close has returned, the connection table
\* has no key and every supervisor that was ever created has _running
\* false, no connect loop that is still going and no client that is open
\* or being opened, whenever the discovery threads delivered their events.
C19_ClosedMeansAllStopped ==
    SubClosed =>
       /\ Keys(connections) = {}
       /\ \A m \in Created :
             /\ ~cmRunning[m]
             /\ cmPc[m] \in {"idle", "exit", "cancelled"}
             /\ clState[m] \in {"none", "closed"}


(***************************************************************************)
(* Specification of Publisher.close against the sender, the worker and the *)
(* server: a user thread sends before, during and after close, peers       *)
(* connect and disconnect, the worker and the loop run.  The join of the   *)
(* send thread may time out; the waits for the loop do not:                *)
(* future.result returns when server.stop() has run and the join of the    *)
(* loop thread returns when the loop has stopped.                          *)
(***************************************************************************)
\* send calls made
RetireSends == 3

RetireInit ==
    PubInit /\ SrvInit /\ SubInit /\ CodecIdle /\ Construct(None)

\* the server.stop() that close scheduled has run
StopServed == \A i \in 1..Len(loopq) : loopq[i].kind # "stop"

RetireNext ==
    \/ SendCall("s1", RetireSends, SmallBodies, PlainArgs)
    \/ SendPut("s1")
    \/ WorkerNext(RetireSends)
    \/ \E c \in Conns : Accept(c)
    \/ \E c \in Conns : HandlerEOF(c)
    \/ HandleClient
    \/ Broadcast
    \/ ServerStop
    \/ LoopStop
    \/ PubCloseCall
    \/ PubCloseStopServer
    \/ StopServed /\ PubCloseUnregister
    \/ ~loop_running /\ PubCloseReturn

SpecRetire == RetireInit /\ [][RetireNext]_vars

\* a call of Publisher.close has returned
PubClosed == closePc = "idle" /\ closeCalls >= 1

OverflowSends == 12

OverflowInit ==
    PubInit /\ SrvInit /\ SubInit /\ CodecIdle /\ Construct(None)

OverflowNext ==
    \/ SendNext(Senders, OverflowSends, SmallBodies, PlainArgs)
    \/ WorkerNext(LoopBacklog)
    \/ Broadcast

SpecOverflow == OverflowInit /\ [][OverflowNext]_vars

\* the step is the return of a send call of s that had found the queue full
OverflowReturn(s) ==
    sendPc[s] \in {"get", "reput"} /\ sendPc'[s] = "idle"

\* C21: a send call that found the queue full returns with its own item in
\* the queue, whatever the other caller and the worker did in between.
C21_NewItemNeverLost ==
    [][\A s \in Senders :
          OverflowReturn(s) =>
             \E i \in 1..Len(send_queue') : send_queue'[i] = sendItem[s]]_vars


\* C22: a supervisor whose stop has completed is stopped for good, in
\* whatever state the stop found it (not yet started, connecting,
\* connected): it is not running, it has no connect loop going and no
\* client that is open or being opened.
C22_StopInEveryState ==
    \A m \in Sups :
       cmStopped[m] =>
          /\ ~cmRunning[m]
          /\ cmPc[m] \in {"idle", "exit", "cancelled"}
          /\ clState[m] \in {"none", "closed"}


\* start has run for the supervisor and a stop has completed since
StartedAndStopped(m) == cmStopped[m] /\ ~cmRunning[m] /\ cmPc[m] # "idle"

\* C23: a supervisor that was started and whose stop has since completed
\* has its connect task ended or cancelled, whatever it was waiting for,
\* and its client closed, so that no frame is read for it; and it stays
\* exactly so in every later step.
C23_StoppedIsTerminal ==
    /\ [](\A m \in Sups :
            StartedAndStopped(m) =>
               /\ cmPc[m] \in {"cancelled", "exit"}
               /\ clState[m] \in {"none", "closed"}
               /\ ~ENABLED RxAppend(m, ReconnectArrivals))
    /\ [][\A m \in Sups :
            StartedAndStopped(m) =>
               /\ cmRunning'[m] = cmRunning[m]
               /\ cmPc'[m] = cmPc[m]
               /\ clState'[m] = clState[m]
               /\ waited'[m] = waited[m]
               /\ current_backoff'[m] = current_backoff[m]]_vars

\* a supervisor that had lost its connection and begun a backoff wait of
\* one second has been stopped: its task is cancelled and its client closed
C23_Witness ==
    \E m \in Sups :
       /\ StartedAndStopped(m) /\ everConnected[m]
       /\ waited[m] = <<1>> /\ current_backoff[m] = 1
       /\ cmPc[m] = "cancelled" /\ clState[m] = "closed"


\* the step is a successful connect of supervisor m
ConnectStep(m) == cmPc[m] = "connecting" /\ cmPc'[m] = "connected"

\* C24: a successful connect sets the delay to 1, whatever it was, and the
\* k-th wait of a supervisor since its last successful connect is
\* min(2^(k-1), 32) seconds: 1 first, then doubling up to 32.
C24_ConnectResetsBackoff ==
    /\ [][\A m \in Sups : ConnectStep(m) => current_backoff'[m] = 1]_vars
    /\ [](\A m \in Sups :
            everConnected[m] =>
               \A k \in 1..Len(waited[m]) :
                  waited[m][k] = Min(Pow2(k - 1), 32))

\* the only supervisor connected at its fourth attempt or later and lost
\* the connection; it has since waited 1 second, failed to connect, and
\* begun a wait of 2 seconds
C24_Witness ==
    \E m \in Sups :
       /\ everConnected[m] /\ attempts >= 5
       /\ \A n \in Sups \ {m} : cmEp[n] = NoEndpoint
       /\ waited[m] = <<1, 2>>


\* the step is self.client = TCPClient(...) of supervisor m
NewClientStep(m) == cmPc[m] = "top" /\ cmPc'[m] = "connecting"

\* C25: when a supervisor creates a new client, the client it had before,
\* if it had one that was connected, has its receive loop ended and its
\* connection closed.
C25_OneLiveClient ==
    [][\A m \in Sups :
          NewClientStep(m) => clState[m] \in {"none", "new", "closed"}]_vars


(***************************************************************************)
(* Specification of the flags byte: one publisher is connected to and its  *)
(* frames carry flags bytes that no publisher of this library writes, with *)
(* some of the upper six bits set.                                         *)
(***************************************************************************)
\* values of the flags byte: 0x00, 0x03, 0x04, 0x83
WideFlags == {0, 3, 4, 131}
\* the n-th frame body with such a flags byte
WidePayloads(n) ==
    {[n |-> n, len |-> 2, flags |-> f, body |-> b] :
        f \in WideFlags, b \in PayloadBodies}

FlagsInit ==
    PubInit /\ SrvInit /\ SubInit /\ CodecIdle /\ Construct(None)

FlagsNext ==
    \/ \E d \in DiscThreads, e \in Endpoints :
          FoundLocked(d, e, CallbackFounds)
    \/ \E d \in DiscThreads : DiscSchedule(d)
    \/ CmStart
    \/ \E m \in Sups : CmTop(m, CallbackAttempts)
    \/ \E m \in Sups : CmConnectOk(m)
    \/ \E m \in Sups :
          RxAppendFrom(m, CallbackArrivals, WidePayloads(arrivals + 1))
    \/ RxSet
    \/ CbLoop
    \/ CbWaitSignalled
    \/ CbWaitTimeout
    \/ CbClear
    \/ CbPop
    \/ CbProcess

SpecFlags == FlagsInit /\ [][FlagsNext]_vars

\* some of the upper six bits of the flags byte are set
UpperBits(flags) == flags \div 4 # 0

\* C26: the worker's processing of a payload whose flags byte has an upper
\* bit set does not invoke the user callback, whatever the low two bits and
\* the body are.
C26_UpperBitsRejected ==
    [][(ProcessStep /\ UpperBits(cbPayload.flags)) =>
          UNCHANGED lastCalled]_vars


\* the step is the receive loop reading a frame whose length field is 0:
\* the frame is counted and _on_message returns without touching the slot
EmptyFrameStep == arrivals' = arrivals + 1 /\ rxPc' = None

\* C27: the step in which a frame of length 0 is read ends the receive
\* loop of the client that read it: an open client is marked not running.
C27_EmptyFrameDisconnects ==
    [][EmptyFrameStep =>
          \E m \in Sups : clState[m] = "open" /\ clState'[m] = "lost"]_vars


\* the write to w raised in this step
WriteFailed(w) == closedBy[w] = "no" /\ closedBy'[w] = "broadcast"

\* C28: in a broadcast in which the write to a writer raises, that writer
\* is closed and gone from the writer list after the step and has not been
\* written the frame, and every other writer of the list that is not above
\* the mark is written the frame unless its own write raises; a writer
\* that failed is never in the list and never written to again.
C28_FailedWriterDropped ==
    /\ [][BroadcastStep =>
            \A w \in Range(clients) :
               WriteFailed(w) =>
                  /\ w \notin Range(clients')
                  /\ wire'[w] = wire[w]
                  /\ \A v \in Range(clients) \ {w} :
                        ~Skipped(buf[v]) =>
                           \/ wire'[v] =
                                 Append(wire[v], Message(Head(loopq).data))
                           \/ WriteFailed(v)]_vars
    /\ [][\A c \in Conns :
            closedBy[c] = "broadcast" =>
               /\ wire'[c] = wire[c]
               /\ c \notin Range(clients')
               /\ closedBy'[c] = "broadcast"]_vars

\* a writer was written frame 1 and failed on frame 2; the other writer
\* was written frames 2 and 3 and is still in the list
C28_Witness ==
    \E c, d \in Conns :
        /\ closedBy[c] = "broadcast" /\ c \notin Range(clients)
        /\ Len(wire[c]) = 1 /\ wire[c][1].data.pop = 1
        /\ d \in Range(clients)
        /\ \E i, j \in 1..Len(wire[d]) :
              wire[d][i].data.pop = 2 /\ wire[d][j].data.pop = 3


\* Subscriber.close is inside its for loop over self._connections.values()
\* or about to clear the table
CloseInTable == subClosePc \in {"stopping", "result", "clear"}

\* C29: while close iterates over the table or is about to clear it, no
\* discovery thread adds or removes an entry, as it would be if close held
\* the table's mutex from the start of the iteration to the clear; and so
\* the iteration never fails.
C29_TableUnderMutex ==
    /\ [][(CloseInTable /\ subClosePc' = subClosePc) =>
            connections' = connections]_vars
    /\ [](subClosePc # "raised")


(***************************************************************************)
(* Specification of failing encodings: a publisher of any compression     *)
(* mode, one thread calling send with values msgpack can and cannot       *)
(* encode, the worker encoding what it pops and the loop broadcasting.    *)
(***************************************************************************)
\* calls of send
DropSends == 3
\* the compression argument of the constructor
DropModes == {None, "image", "zip"}
\* the arguments of send
DropArgs ==
    {[value |-> x, hint |-> h] :
        x \in {Integer(1), Unpackable, List(<<Integer(1), Unpackable>>)},
        h \in {None, "T"}}

DropInit ==
    /\ PubInit /\ SrvInit /\ SubInit /\ CodecIdle
    /\ \E mode \in DropModes : Construct(mode)

DropNext ==
    \/ SendCall("s1", DropSends, {Spelled}, DropArgs)
    \/ SendPut("s1")
    \/ WorkerNext(DropSends)
    \/ Broadcast

SpecDrop == DropInit /\ [][DropNext]_vars

\* the worker leaves its inner try block
LeavesTry == workerPc = "send" /\ workerPc' # "send"
\* every encoding of the popped item raises
MustFail == \A enc \in Encoded(workerData.item.data, compression) : ~enc.ok
\* some encoding of the popped item raises
MayFail == \E enc \in Encoded(workerData.item.data, compression) : ~enc.ok

\* C30: when the worker is done with a popped item, either the encoding or
\* the compression of the item raised, and then one line is logged for it
\* and the loop's ready queue is as it was, or it did not, and then one
\* broadcast of the item's payload is appended and nothing is logged; an
\* item that cannot be encoded is always of the first kind.  In both cases
\* the worker is back at the test of its loop and the thread that called
\* send is where it was.  The worker never ends while the publisher runs,
\* the broadcasts waiting on the loop are in the order of the pops, and no
\* broadcast waits for an item that was logged.
C30_FailedItemDropped ==
    /\ [][LeavesTry =>
             /\ workerPc' = "loop"
             /\ sendPc' = sendPc /\ sendItem' = sendItem
             /\ \/ /\ MayFail
                   /\ failedLog' = Append(failedLog, workerData.pop)
                   /\ loopq' = loopq
                \/ /\ ~MustFail
                   /\ failedLog' = failedLog
                   /\ Len(loopq') = Len(loopq) + 1
                   /\ SubSeq(loopq', 1, Len(loopq)) = loopq
                   /\ loopq'[Len(loopq')].kind = "broadcast"
                   /\ loopq'[Len(loopq')].data.pop = workerData.pop
                   /\ loopq'[Len(loopq')].data.id = workerData.item.id]_vars
    /\ [](pub_running => workerPc # "done")
    /\ [](\A i, j \in 1..Len(loopq) :
            (i < j /\ loopq[i].kind = "broadcast"
                   /\ loopq[j].kind = "broadcast") =>
               loopq[i].data.pop < loopq[j].data.pop)
    /\ [](\A i \in 1..Len(loopq), k \in 1..Len(failedLog) :
            loopq[i].kind = "broadcast" => loopq[i].data.pop # failedLog[k])

\* without compression the first item popped could not be encoded and was
\* logged, the second was encoded and its broadcast waits on the loop, the
\* third could not be encoded either, and the worker is back at its loop
C30_Witness ==
    /\ compression = None
    /\ failedLog = <<1, 3>>
    /\ \E i \in 1..Len(loopq) :
          loopq[i].kind = "broadcast" /\ loopq[i].data.pop = 2
    /\ workerPc = "loop"
    /\ sendPc["s1"] = "idle"


\* the worker pops a payload from the slot
PopStep == cbPc = "pop" /\ cbPc' = "process"
\* the user callback is invoked
CallStep == lastCalled' # lastCalled

\* C31: the payloads are numbered in the order in which they are written to
\* the slot.  What is in the slot is newer than everything the worker has
\* popped; a pop takes a payload that was written, newer than every payload
\* popped or handed to the callback before; the callback is invoked only by
\* the worker, in the step that processes the payload it popped, and that
\* payload is newer than the one of the invocation before.  So no payload
\* is dispatched twice and the invocations follow the order of the writes.
C31_CallbacksInWriteOrder ==
    /\ [](\A i \in 1..Len(msg_deque) :
            msg_deque[i].n > lastTaken.n /\ msg_deque[i].n > lastCalled.n)
    /\ [](lastCalled.n <= lastTaken.n /\ lastTaken.n <= arrivals)
    /\ [][PopStep =>
             /\ cbPayload'.n > lastTaken.n
             /\ cbPayload'.n > lastCalled.n
             /\ cbPayload'.n \in 1..arrivals
             /\ \A i \in 1..Len(msg_deque') : msg_deque'[i] # cbPayload']_vars
    /\ [][CallStep =>
             /\ cbPc = "process" /\ cbPc' # "process"
             /\ lastCalled' = cbPayload
             /\ lastCalled'.n > lastCalled.n]_vars

\* two supervisors are connected, the callback has returned for the second
\* payload written, the first was displaced in the slot or dispatched, and
\* the worker has popped the third and is about to invoke the callback for it
C31_Witness ==
    /\ \E m, k \in Sups :
          m # k /\ clState[m] = "open" /\ clState[k] = "open"
    /\ lastCalled.n = 2
    /\ cbPc = "process" /\ cbPayload.n = 3 /\ Invokes(cbPayload)
    /\ msg_deque = <<>>

====
